---- MODULE Spec2Model ----
(***************************************************************************)
(* A model of zdns: the in-memory DNS cache (package cache), the           *)
(* multiplexed upstream client (package dnsutil), the DNS proxy handler    *)
(* (package dns), the hosts loader and hijack handler (package zdns) and   *)
(* the SQL-backed request log and cache store (package sql).               *)
(*                                                                         *)
(* The specifications share the variables:                                 *)
(*   Spec       the cache used directly by concurrent callers, together    *)
(*              with its queue consumer goroutine;                         *)
(*   SpecMux    one mux.Exchange call racing its upstream clients;         *)
(*   SpecProxy  concurrent Proxy.ServeDNS handlers over the cache;         *)
(*   SpecHijack the hijack handler over every installed hosts table;       *)
(*   SpecHosts  concurrent hosts loads and hijack lookups;                 *)
(*   SpecLog    the request logger: concurrent writeMsg calls, the drain   *)
(*              goroutine and Close;                                       *)
(*   SpecLogFair   SpecLog with every goroutine scheduled fairly;          *)
(*   SpecSql    the sql.Client: writeLog step by step, readLog and         *)
(*              deleteLogBefore;                                           *)
(*   SpecLoad   cache.New over a backend that holds rows;                  *)
(*   SpecSqlCache  the persistent cache's writer goroutine, Read and       *)
(*              Close;                                                     *)
(*   SpecSignal the signal handler: reloads, and the closers of main run   *)
(*              in order over the queues and the store;                    *)
(*   SpecKey    NewKey over questions asked before and after a restart.    *)
(***************************************************************************)
EXTENDS Integers, Sequences, FiniteSets, TLC

(***************************************************************************)
(* Bounds of the model.                                                    *)
(***************************************************************************)
\* number of distinct cache keys used by callers
NumKeys == 3
\* number of goroutines calling the cache directly
NumCallers == 1
\* largest value of the clock (seconds)
MaxTime == 2
\* largest cache capacity chosen at construction
MaxCapacity == 2
\* slots of the task channel (newQueue(1024) in the source, scaled down)
QueueCap == 1

\* number of upstream clients given to NewMux
NumUpstreams == 3
\* number of concurrent ServeDNS goroutines
NumHandlers == 2
\* largest number of questions in a client message
MaxQuestions == 2

\* goroutines in Proxy.writeMsg, writeMsg calls in all, the capacity of the
\* log queue (1024 in NewLogger), the largest clock value of the logger
NumRecorders == 2
MaxRecords == 3
LogQueueCap == 2
MaxLogTime == 1
\* sql.Cache: the capacity of its queue (1024 in NewCache), queries in all
SqlQueueCap == 1
MaxQueries == 3

\* sql.Client: the largest id of a log row, and the LIMIT of the SELECT in
\* deleteLogBefore (999 in the program)
MaxLogId == 3
PruneLimit == 2

\* signal handler: signals delivered in all, entries enqueued on each queue
\* in all, registered reloaders
MaxSignals == 2
MaxEnqueued == 2
NumReloaders == 2

\* number of configured hosts sources
NumSources == 2
\* number of goroutines that can run loadHosts at once (ticker, signal)
NumLoaders == 2

Keys == 1..NumKeys
Callers == 1..NumCallers
Upstreams == 1..NumUpstreams
Handlers == 1..NumHandlers
Recorders == 1..NumRecorders
Loaders == 1..NumLoaders

(***************************************************************************)
(* DNS messages.  A message is a heap object (the code passes *dns.Msg     *)
(* pointers around); MsgTable gives the content each object is created     *)
(* with.  rr lists the resource records of the answer, authority and       *)
(* additional sections in that order.                                      *)
(***************************************************************************)
RcodeSuccess == 0
RcodeServerFailure == 2
RcodeNameError == 3
\* (1 << 31) - 1, the maximum TTL from RFC 2181
MaxTTL == 2147483647

RR(sec, ttl, opt, val) == [sec |-> sec, ttl |-> ttl, opt |-> opt, val |-> val]

MsgTable ==
  << [id |-> 0, rcode |-> RcodeSuccess, nq |-> 1, q |-> << >>,
      rr |-> << RR("answer", 2, FALSE, "192.0.2.1"), RR("answer", 1, FALSE, "192.0.2.2") >>],
     [id |-> 0, rcode |-> RcodeNameError, nq |-> 1, q |-> << >>,
      rr |-> << RR("ns", 1, FALSE, "soa"), RR("extra", 0, TRUE, "opt") >>],
     [id |-> 0, rcode |-> RcodeSuccess, nq |-> 1, q |-> << >>,
      rr |-> << RR("answer", 1, FALSE, "192.0.2.42"), RR("extra", 0, FALSE, "192.0.2.53") >>],
     [id |-> 0, rcode |-> RcodeServerFailure, nq |-> 1, q |-> << >>,
      rr |-> << >>],
     [id |-> 0, rcode |-> RcodeSuccess, nq |-> 0, q |-> << >>,
      rr |-> << RR("answer", 1, FALSE, "192.0.2.7") >>] >>

Objs == 1..Len(MsgTable)
\* the messages the callers pass to Set, and the replies of the upstream
SetMsgs == {1, 3, 4}
Replies == {2, 3, 4}
\* the replies an upstream gives to a query of the proxy; 5 has no question
ProxyReplies == {1, 2, 4, 5}
\* the replies of an upstream that may carry another question than the query
StrayReplies == {1}

NoObj == 0
NoQuestion == << >>
NoKey == 0
NoVal == [key |-> NoKey, createdAt |-> 0, msg |-> NoObj]
NoTask == [op |-> "none", key |-> NoKey, q |-> NoQuestion]
NoPending == [task |-> NoTask, ok |-> FALSE, msg |-> NoObj]
NoWatch == [key |-> NoKey, createdAt |-> 0, msg |-> NoObj, by |-> "none",
            intact |-> FALSE]

VARIABLES
  capacity,     \* Cache.capacity
  prefetch,     \* Cache.client != nil
  hasBackend,   \* Cache.backend != nil
  values,       \* Cache.values: key -> Value
  keys,         \* Cache.keys: insertion order
  backend,      \* rows of the backend's cache table, in id order
  queue,        \* Cache.queue.tasks: the buffered task channel
  readers,      \* goroutines holding c.mu.RLock
  now,          \* the clock c.now()
  heap,         \* the *dns.Msg objects
  pc,           \* position of each caller
  pending,      \* what a caller's lookup returned and the task it is about
                \* to send, holding the read lock
  cpc,          \* position of the queue consumer
  ctask,        \* the task the consumer is running
  last,         \* the operation that just completed, and its result
  watch         \* history: one write (by Set or by a refresh) under
                \* observation, until the next Set of its key or Reset;
                \* intact is FALSE once its entry was evicted or rewritten by
                \* a background task

VARIABLES
  upstream,     \* mux: position of the goroutine of each client
  responses,    \* mux: the responses channel
  errs,         \* mux: the errs channel
  closed,       \* mux: the channels have been closed after wg.Wait
  mpc,          \* mux: position of Exchange
  mres,         \* mux: what Exchange returned
  firstOk,      \* history: the client that succeeded first, and its reply
  late          \* history: the clients that replied after Exchange returned

VARIABLES
  hpc,          \* proxy: position of each ServeDNS goroutine
  hreq,         \* proxy: the client message r it serves
  hmsg,         \* proxy: the *dns.Msg it got from the cache or the upstream
  out,          \* proxy: the last message written to a client
  recorded,     \* proxy: the p.logger.Record call of the latest step of ServeDNS
  keyed,        \* per run of the process: the last question keyed, and its key
  trace,        \* history: the lookups and exchanges made for the request
  panicked      \* proxy: a handler goroutine has panicked

VARIABLES
  sources,      \* server: Config.Hosts, the configured sources in order
  hijackMode,   \* server: Config.DNS.hijackMode
  hosts,        \* server: s.hosts, the installed table (a map object)
  tables,       \* server: the hosts.Hosts map objects
  smu,          \* server: the goroutine holding s.mu.Lock
  lpc,          \* server: position of each loadHosts goroutine
  li,           \* server: the source it is at
  lhs,          \* server: hs, the map object it merges into
  lreads,       \* history: what each source gave this load
  lfailed,      \* server: the sources this load logged as failed
  installed,    \* history: what the sources gave the load that installed
                \* the current table
  hres          \* server: the last hijack call and its reply

VARIABLES
  logMode,      \* logger: l.mode
  logTTL,       \* logger: the ttl NewLogger was given
  lnow,         \* logger: the clock l.now()
  lqueue,       \* logger: l.queue, the channel of log entries
  lwg,          \* logger: the counter of l.wg
  wpc,          \* logger: position of the readQueue goroutine
  wcur,         \* logger: the entry e readQueue is handling
  logRows,      \* sql: the rows of table log, what the read API shows
  committed,    \* history: the entries writeLog committed, in order
  failed,       \* history: the entries whose writeLog failed and was logged
  rpc,          \* proxy: position of each writeMsg goroutine
  rrec,         \* proxy: the entry its Record call is about
  nrec,         \* history: the number of writeMsg calls so far
  accepted,     \* history: the entries Record sent to the queue, in order
  replied,      \* history: the queries whose reply was written
  closing,      \* logger: position of the goroutine calling Close
  closeSeen     \* history: the entries accepted before Close was called

VARIABLES
  sqQueue,      \* sql.Cache: c.queue, the channel of queries
  sqWg,         \* sql.Cache: the counter of c.wg
  sqpc,         \* sql.Cache: position of the readQueue goroutine
  sqCur,        \* sql.Cache: the query q readQueue is handling
  sqStore,      \* sql: the keys of table cache
  sqArg,        \* sql.Cache: the query an enqueue call is sending
  sqSent,       \* history: the number of queries sent to the queue
  sqClosing,    \* sql.Cache: position of the goroutine calling Close
  sqRpc,        \* sql.Cache: position of the goroutine calling Read
  sqReadRes,    \* sql.Cache: the keys Read returned, in order
  sqOps,        \* history: the queries enqueued so far, in order
  sqReadSeen    \* history: the number of queries enqueued before Read

VARIABLES
  shChan,       \* signal: the channel of signals given to NewHandler
  shPc,         \* signal: position of the readSignal goroutine
  shIdx,        \* signal: index of the closer or reloader it is at
  shClosed,     \* history: the closers closed in this pass, with their result
  shReloaded,   \* history: the reloaders invoked in this pass
  shStopped,    \* signal: signal.Stop has been called
  shSent,       \* history: the number of signals delivered
  listening,    \* dns: the proxy's server accepts queries
  storeOpen,    \* sql: the database handle of the Client is open
  crashed,      \* the process has died of a panic
  qwg,          \* the wait-group counter of each queue
  qenq,         \* history: the number of entries enqueued on each queue
  qdone,        \* history: the number of entries its worker has handled
  qlost,        \* history: the entries of each queue that were not committed
  atSignal      \* history: qenq when the shutdown signal was received

VARIABLES
  sqlDb,        \* sql.Client: the committed content of the database
  sqlTx,        \* sql.Client: the open transaction and its view of the tables
  sqlMu,        \* sql.Client: c.mu, free or held by the writing operation
  sqlPc,        \* sql.Client: position of the writeLog call under way
  sqlArg,       \* sql.Client: the entry that writeLog call is writing
  sqlRead       \* sql.Client: what the last readLog returned

cacheVars == << capacity, prefetch, hasBackend, values, keys, backend, queue,
                readers, now, heap, pc, pending, cpc, ctask,
                last, watch >>

muxVars == << upstream, responses, errs, closed, mpc, mres, firstOk, late >>

proxyVars == << hpc, hreq, hmsg, out, recorded, trace, panicked, keyed >>

serverVars == << sources, hijackMode, hosts, tables, smu, lpc, li, lhs, lreads,
                 lfailed, installed, hres >>

\* the variables of the services beside the cache, the mux and the proxy
logVars == << logMode, logTTL, lnow, lqueue, lwg, wpc, wcur, logRows,
              committed,
              failed, rpc, rrec, nrec, accepted, replied, closing, closeSeen >>

sqReadVars == << sqRpc, sqReadRes, sqReadSeen >>

sqlCacheVars == << sqQueue, sqWg, sqpc, sqCur, sqStore, sqArg, sqSent,
                   sqClosing, sqOps, sqReadVars >>

sqlVars == << sqlDb, sqlTx, sqlMu, sqlPc, sqlArg, sqlRead >>

signalVars == << shChan, shPc, shIdx, shClosed, shReloaded, shStopped, shSent,
                 listening, storeOpen, crashed, qwg, qenq, qdone, qlost,
                 atSignal >>

restVars == << serverVars, logVars, sqlCacheVars, sqlVars, signalVars >>

vars == << cacheVars, muxVars, proxyVars, restVars >>

(***************************************************************************)
(* dnsutil.MinTTL and the cache's pure helpers.                            *)
(***************************************************************************)
min(x, y) == IF x < y THEN x ELSE y

RECURSIVE MinTTLFrom(_, _, _)
MinTTLFrom(rr, i, ttl) ==
  IF i > Len(rr) THEN ttl
  ELSE IF rr[i].sec = "extra" /\ rr[i].opt
       THEN MinTTLFrom(rr, i + 1, ttl)
       ELSE MinTTLFrom(rr, i + 1, min(rr[i].ttl, ttl))

MinTTL(msg) == MinTTLFrom(msg.rr, 1, MaxTTL)

\* a canCache that forgets the response code
canCacheAnyRcode(msg) == MinTTL(msg) # 0

canCache(msg) ==
  IF MinTTL(msg) = 0 THEN FALSE
  ELSE msg.rcode = RcodeSuccess \/ msg.rcode = RcodeNameError

\* an isExpired with the comparison the wrong way round
isExpiredInverted(v, t) == t - v.createdAt < MinTTL(heap[v.msg])

\* now.After(createdAt + ttl), written without the sum, which is out of range
\* of the model checker's integers for a message without records
isExpired(v, t) == t - v.createdAt > MinTTL(heap[v.msg])

\* a removeKey that leaves the list as it is
removeKeyNone(ks, key) == ks

removeKey(ks, key) == SelectSeq(ks, LAMBDA k : k # key)

\* an appendKey that does not remove the key first
appendKeyTwice(ks, key) == Append(ks, key)

appendKey(ks, key) == Append(removeKey(ks, key), key)

Without(f, k) == [x \in (DOMAIN f) \ {k} |-> f[x]]

With(f, k, v) == [x \in (DOMAIN f) \cup {k} |-> IF x = k THEN v ELSE f[x]]

(***************************************************************************)
(* The backend (sql.Cache over the cache table): rows in id order.         *)
(***************************************************************************)
\* an Evict that the backend does not carry out
BackendEvictNone(rows, key) == rows

BackendEvict(rows, key) == SelectSeq(rows, LAMBDA v : v.key # key)

BackendSet(rows, key, value) == Append(BackendEvict(rows, key), value)

\* a Reset that the backend does not carry out
BackendResetNone(rows) == rows

BackendReset(rows) == << >>

(***************************************************************************)
(* The state the cache's write lock protects, as a record, and the         *)
(* critical sections over it.                                              *)
(***************************************************************************)
CacheState == [values |-> values, keys |-> keys, backend |-> backend]

\* an eviction that takes the newest key instead of the oldest
evictKeyNewest(c) == c.keys[Len(c.keys)]

\* evict := c.keys[0]
evictKey(c) == c.keys[1]

\* c.keys = c.keys[1:]
dropFirst(ks) == Tail(ks)

setValue(c, value) ==
  IF capacity = 0 \/ ~canCache(heap[value.msg])
  THEN [ok |-> FALSE, c |-> c, evicted |-> {}]
  ELSE LET full == Cardinality(DOMAIN c.values) = capacity /\ capacity > 0
           evict == evictKey(c)
           c1 == IF full
                 THEN [values |-> Without(c.values, evict),
                       keys |-> dropFirst(c.keys),
                       backend |-> IF hasBackend THEN BackendEvict(c.backend, evict)
                                   ELSE c.backend]
                 ELSE c
       IN [ok |-> TRUE,
           c |-> [values |-> With(c1.values, value.key, value),
                  keys |-> appendKey(c1.keys, value.key),
                  backend |-> IF hasBackend
                              THEN BackendSet(c1.backend, value.key, value)
                              ELSE c1.backend],
           evicted |-> IF full THEN {evict} ELSE {}]

\* a set that keeps the creation time of the entry it replaces
setKeepTime(c, key, msg) ==
  setValue(c, [key |-> key,
               createdAt |-> IF key \in DOMAIN c.values
                               THEN c.values[key].createdAt ELSE now,
               msg |-> msg])

set(c, key, msg) == setValue(c, [key |-> key, createdAt |-> now, msg |-> msg])

\* an eviction that forgets the backend
evictKeepBackend(c, key) ==
  [values |-> Without(c.values, key),
   keys |-> removeKey(c.keys, key),
   backend |-> c.backend]

evict(c, key) ==
  [values |-> Without(c.values, key),
   keys |-> removeKey(c.keys, key),
   backend |-> IF hasBackend THEN BackendEvict(c.backend, key) ELSE c.backend]

\* a getValue that reports an expired entry as a miss even when prefetching
getValueNoStale(key) ==
  IF key \notin DOMAIN values
  THEN [ok |-> FALSE, v |-> NoVal, task |-> NoTask]
  ELSE LET v == values[key] IN
       IF isExpired(v, now)
       THEN IF ~prefetch
            THEN [ok |-> FALSE, v |-> NoVal,
                  task |-> [op |-> "evict", key |-> key, q |-> NoQuestion]]
            ELSE [ok |-> FALSE, v |-> NoVal,
                  task |-> [op |-> "refresh", key |-> key, q |-> heap[v.msg].q]]
       ELSE [ok |-> TRUE, v |-> v, task |-> NoTask]

\* the lookup of getValue: the result and the task to enqueue, if any
getValue(key) ==
  IF key \notin DOMAIN values
  THEN [ok |-> FALSE, v |-> NoVal, task |-> NoTask]
  ELSE LET v == values[key] IN
       IF isExpired(v, now)
       THEN IF ~prefetch
            THEN [ok |-> FALSE, v |-> NoVal,
                  task |-> [op |-> "evict", key |-> key, q |-> NoQuestion]]
            ELSE [ok |-> TRUE, v |-> v,
                  task |-> [op |-> "refresh", key |-> key, q |-> heap[v.msg].q]]
       ELSE [ok |-> TRUE, v |-> v, task |-> NoTask]

\* Cache.List: the n most recent values, the newest first
RECURSIVE ListFrom(_, _)
ListFrom(i, n) ==
  IF i = 0 \/ n = 0 THEN << >>
  ELSE << values[keys[i]] >> \o ListFrom(i - 1, n - 1)

List(n) == ListFrom(Len(keys), n)

Install(c) ==
  /\ values' = c.values
  /\ keys' = c.keys
  /\ backend' = c.backend

(***************************************************************************)
(* Construction.                                                           *)
(***************************************************************************)
CacheInit ==
  /\ capacity \in 0..MaxCapacity
  /\ prefetch \in BOOLEAN
  /\ hasBackend = TRUE
  /\ values = << >>
  /\ keys = << >>
  /\ backend = << >>
  /\ queue = << >>
  /\ readers = {}
  /\ now = 0
  /\ heap = MsgTable
  /\ pc = [p \in Callers |-> "idle"]
  /\ pending = [p \in Callers |-> NoPending]
  /\ cpc = "idle"
  /\ ctask = NoTask
  /\ last = [op |-> "init", key |-> NoKey, ok |-> FALSE, msg |-> NoObj,
             evictedOther |-> FALSE]
  /\ watch = NoWatch

NoReply == [ok |-> FALSE, reply |-> NoObj, err |-> 0]
NoFirst == [client |-> 0, reply |-> NoObj]

\* no Exchange has been called
MuxIdle ==
  /\ upstream = [u \in Upstreams |-> "idle"]
  /\ responses = << >>
  /\ errs = << >>
  /\ closed = FALSE
  /\ mpc = "idle"
  /\ mres = NoReply
  /\ firstOk = NoFirst
  /\ late = {}

NoRequest == [id |-> 0, nq |-> 0, name |-> << >>, addr |-> "none"]
NoOut == [to |-> 0, kind |-> "none", id |-> 0, src |-> "none"]
NoRecord == [by |-> 0, hijacked |-> FALSE, qtype |-> 0, q |-> << >>, addr |-> "none"]
\* the process as it runs before a restart and as it runs after it
KeyRuns == {"before", "after"}
NoKeyed == [name |-> << >>, qtype |-> 0, qclass |-> 0, key |-> NoKey]

\* no query has arrived
ProxyIdle ==
  /\ hpc = [h \in Handlers |-> "idle"]
  /\ hreq = [h \in Handlers |-> NoRequest]
  /\ hmsg = [h \in Handlers |-> NoObj]
  /\ out = NoOut
  /\ recorded = NoRecord
  /\ keyed = [r \in KeyRuns |-> NoKeyed]
  /\ trace = [h \in Handlers |-> {}]
  /\ panicked = FALSE

\* hosts.Hosts{}: a table without entries
EmptyHosts == << >>

\* the zero value of a Server's hosts field, and of a *dns.Reply
NilHosts == 0
NilReply == [nil |-> TRUE, rr |-> << >>]
\* Proxy.reply returned nil: the query is not hijacked
NotHijacked == [hijacked |-> FALSE, rcode |-> 0, answer |-> << >>]
NoLookup == [type |-> 0, name |-> << >>, msg |-> NotHijacked]

HijackZero == 0
HijackEmpty == 1
HijackHosts == 2

\* a Server without hosts sources, before any load and any query
ServerIdle ==
  /\ hosts = NilHosts
  /\ tables = [o \in 1..(NumLoaders + 1) |-> EmptyHosts]
  /\ smu = 0
  /\ lpc = [l \in Loaders |-> "idle"]
  /\ li = [l \in Loaders |-> 0]
  /\ lhs = [l \in Loaders |-> NilHosts]
  /\ lreads = [l \in Loaders |-> << >>]
  /\ lfailed = [l \in Loaders |-> {}]
  /\ installed = << >>
  /\ hres = NoLookup

ServerOff ==
  /\ sources = << >>
  /\ hijackMode = HijackZero
  /\ ServerIdle

LogDiscard == 0
LogAll == 1
LogHijacked == 2

NoEntry == [id |-> 0, hijacked |-> FALSE, time |-> 0]

\* a Logger nothing has been recorded with, and no writeMsg under way
LogIdle ==
  /\ lnow = 0
  /\ lqueue = << >>
  /\ lwg = 0
  /\ wcur = NoEntry
  /\ committed = << >>
  /\ failed = {}
  /\ rpc = [h \in Recorders |-> "idle"]
  /\ rrec = [h \in Recorders |-> NoEntry]
  /\ nrec = 0
  /\ accepted = << >>
  /\ replied = {}
  /\ closing = "idle"
  /\ closeSeen = {}

\* NewLogger(client, LogDiscard, 0) on an empty database
LogOff ==
  /\ logMode = LogDiscard
  /\ logTTL = 0
  /\ wpc = "off"
  /\ logRows = << >>
  /\ LogIdle

setOp == 0
removeOp == 1
resetOp == 2

\* no query: its op is none of the three
NoQuery == [op |-> -1, key |-> 0]

\* NewCache(client) on an empty database: readQueue waits for a query
SqlCacheIdle ==
  /\ sqQueue = << >>
  /\ sqWg = 0
  /\ sqpc = "recv"
  /\ sqCur = NoQuery
  /\ sqStore = << >>
  /\ sqArg = NoQuery
  /\ sqSent = 0
  /\ sqClosing = "idle"
  /\ sqRpc = "idle"
  /\ sqReadRes = << >>
  /\ sqOps = << >>
  /\ sqReadSeen = 0

\* the database after New: the schema without rows
EmptyDb ==
  [log |-> {}, log_rr_answer |-> {}, rr_type |-> {}, rr_question |-> {},
   rr_answer |-> {}, remote_addr |-> {}]

NoTx == [open |-> FALSE, db |-> EmptyDb]
Queues == {"task", "log", "sqlCache"}

\* newCli has returned and the servers listen: no signal yet, nothing queued
SignalIdle ==
  /\ shChan = << >>
  /\ shPc = "recv"
  /\ shIdx = 0
  /\ shClosed = << >>
  /\ shReloaded = << >>
  /\ shStopped = FALSE
  /\ shSent = 0
  /\ listening = TRUE
  /\ storeOpen = TRUE
  /\ crashed = FALSE
  /\ qwg = [q \in Queues |-> 0]
  /\ qenq = [q \in Queues |-> 0]
  /\ qdone = [q \in Queues |-> 0]
  /\ qlost = [q \in Queues |-> {}]
  /\ atSignal = [q \in Queues |-> -1]

NoLogEntry == [time |-> 0, qtype |-> 0, question |-> 0, addr |-> 0, answers |-> << >>]

\* a Client on an empty database, no operation under way
SqlIdle ==
  /\ sqlDb = EmptyDb
  /\ sqlTx = NoTx
  /\ sqlMu = "free"
  /\ sqlPc = "idle"
  /\ sqlArg = NoLogEntry
  /\ sqlRead = {}
  /\ SignalIdle

Init ==
  /\ CacheInit /\ MuxIdle /\ ProxyIdle /\ ServerOff /\ LogOff /\ SqlCacheIdle
  /\ SqlIdle

\* the observed Set's entry is no longer the one Set wrote
Disturb(ks) == IF watch.key \in ks THEN [watch EXCEPT !.intact = FALSE] ELSE watch

Done(op, key, ok, msg) ==
  last' = [op |-> op, key |-> key, ok |-> ok, msg |-> msg, evictedOther |-> FALSE]

\* a write; evictedOther tells that its capacity check evicted another key
DoneWrite(op, key, ok, evicted) ==
  last' = [op |-> op, key |-> NoKey, ok |-> ok, msg |-> NoObj,
           evictedOther |-> (evicted \ {key} # {})]

(***************************************************************************)
(* Cache.Set: the whole critical section under c.mu.Lock.                  *)
(***************************************************************************)
Set(key, msg) ==
  /\ \E p \in Callers : pc[p] = "idle"
  /\ readers = {}
  /\ LET r == set(CacheState, key, msg) IN
     /\ Install(r.c)
     /\ \/ r.ok /\ watch' = [key |-> key, createdAt |-> now, msg |-> msg,
                              by |-> "Set", intact |-> TRUE]
        \/ watch' = IF key = watch.key THEN NoWatch ELSE Disturb(r.evicted)
     /\ DoneWrite("Set", key, r.ok, r.evicted)
  /\ UNCHANGED << muxVars, proxyVars, restVars >>
  /\ UNCHANGED << capacity, prefetch, hasBackend, queue, readers, now, heap,
                  pc, pending, cpc, ctask >>

(***************************************************************************)
(* Cache.Reset.                                                            *)
(***************************************************************************)
Reset ==
  /\ \E p \in Callers : pc[p] = "idle"
  /\ readers = {}
  /\ values' = << >>
  /\ keys' = << >>
  /\ backend' = IF hasBackend THEN BackendReset(backend) ELSE backend
  /\ watch' = NoWatch
  /\ Done("Reset", NoKey, TRUE, NoObj)
  /\ UNCHANGED << muxVars, proxyVars, restVars >>
  /\ UNCHANGED << capacity, prefetch, hasBackend, queue, readers, now, heap,
                  pc, pending, cpc, ctask >>

(***************************************************************************)
(* Cache.Get / getValue.  The read lock is taken, the lookup is made, and  *)
(* for an expired entry the task is sent to the channel before the         *)
(* deferred RUnlock runs: the send is a separate, blocking step.           *)
(***************************************************************************)
GetLookup(p, key) ==
  /\ pc[p] = "idle"
  /\ LET r == getValue(key) IN
     /\ IF r.task = NoTask
        THEN /\ Done("Get", key, r.ok, r.v.msg)
             /\ UNCHANGED << pc, pending, readers >>
        ELSE /\ pc' = [pc EXCEPT ![p] = "send"]
             /\ pending' = [pending EXCEPT ![p] =
                               [task |-> r.task, ok |-> r.ok, msg |-> r.v.msg]]
             /\ readers' = readers \cup {p}
             /\ Done("other", NoKey, FALSE, NoObj)
  /\ UNCHANGED << muxVars, proxyVars, restVars >>
  /\ UNCHANGED << capacity, prefetch, hasBackend, values, keys, backend, queue,
                  now, heap, cpc, ctask, watch >>

GetSend(p) ==
  /\ pc[p] = "send"
  /\ Len(queue) < QueueCap
  /\ queue' = Append(queue, pending[p].task)
  /\ readers' = readers \ {p}
  /\ pc' = [pc EXCEPT ![p] = "idle"]
  /\ pending' = [pending EXCEPT ![p] = NoPending]
  /\ Done("Get", pending[p].task.key, pending[p].ok, pending[p].msg)
  /\ UNCHANGED << muxVars, proxyVars, restVars >>
  /\ UNCHANGED << capacity, prefetch, hasBackend, values, keys, backend, now,
                  heap, cpc, ctask, watch >>

(***************************************************************************)
(* queue.consume: receive a task and run it.                               *)
(***************************************************************************)
Consume ==
  /\ cpc = "idle"
  /\ queue # << >>
  /\ ctask' = Head(queue)
  /\ queue' = Tail(queue)
  /\ cpc' = IF Head(queue).op = "refresh" THEN "exchange" ELSE "lock"
  /\ Done("other", NoKey, FALSE, NoObj)
  /\ UNCHANGED << muxVars, proxyVars, restVars >>
  /\ UNCHANGED << capacity, prefetch, hasBackend, values, keys, backend,
                  readers, now, heap, pc, pending, watch >>

\* Cache.refresh up to c.mu.Lock: the upstream exchange, without the lock
RefreshExchange(ok) ==
  /\ cpc = "exchange"
  /\ IF ok
     THEN /\ cpc' = "lock"
          /\ UNCHANGED ctask
     ELSE /\ cpc' = "idle"
          /\ ctask' = NoTask
  /\ Done("other", NoKey, FALSE, NoObj)
  /\ UNCHANGED << muxVars, proxyVars, restVars >>
  /\ UNCHANGED << capacity, prefetch, hasBackend, values, keys, backend, queue,
                  readers, now, heap, pc, pending, watch >>

\* Cache.refresh from c.mu.Lock on; r is the reply the exchange returned
RefreshSet(r) ==
  /\ cpc = "lock"
  /\ ctask.op = "refresh"
  /\ readers = {}
  /\ LET s == set(CacheState, ctask.key, r) IN
     /\ Install(IF s.ok THEN s.c ELSE evict(CacheState, ctask.key))
     /\ \/ s.ok /\ watch' = [key |-> ctask.key, createdAt |-> now, msg |-> r,
                              by |-> "Refresh", intact |-> TRUE]
        \/ watch' = Disturb(s.evicted \cup {ctask.key})
     /\ DoneWrite("Refresh", ctask.key, s.ok, s.evicted)
  /\ cpc' = "idle"
  /\ ctask' = NoTask
  /\ UNCHANGED << muxVars, proxyVars, restVars >>
  /\ UNCHANGED << capacity, prefetch, hasBackend, queue, readers, now, heap,
                  pc, pending >>

\* Cache.evictWithLock
EvictWithLock ==
  /\ cpc = "lock"
  /\ ctask.op = "evict"
  /\ readers = {}
  /\ Install(evict(CacheState, ctask.key))
  /\ watch' = Disturb({ctask.key})
  /\ Done("Evict", NoKey, TRUE, NoObj)
  /\ cpc' = "idle"
  /\ ctask' = NoTask
  /\ UNCHANGED << muxVars, proxyVars, restVars >>
  /\ UNCHANGED << capacity, prefetch, hasBackend, queue, readers, now, heap,
                  pc, pending >>

\* the clock advances
Tick ==
  /\ now < MaxTime
  /\ now' = now + 1
  /\ Done("other", NoKey, FALSE, NoObj)
  /\ UNCHANGED << muxVars, proxyVars, restVars >>
  /\ UNCHANGED << capacity, prefetch, hasBackend, values, keys, backend, queue,
                  readers, heap, pc, pending, cpc, ctask, watch >>

Next ==
  \/ \E k \in Keys, m \in SetMsgs : Set(k, m)
  \/ Reset
  \/ \E p \in Callers, k \in Keys : GetLookup(p, k)
  \/ \E p \in Callers : GetSend(p)
  \/ Consume
  \/ \E ok \in BOOLEAN : RefreshExchange(ok)
  \/ \E r \in Replies : RefreshSet(r)
  \/ EvictWithLock
  \/ Tick

Spec == Init /\ [][Next]_vars

(***************************************************************************)
(* cache.New over a backend: Cache.load.                                   *)
(***************************************************************************)
\* the messages of persisted entries
LoadMsgs == {m \in Objs : canCache(MsgTable[m])}

\* what backend.Read() can return: rows of distinct keys in id order
BackendRows ==
  UNION {{rows \in [1..n -> [key : Keys, createdAt : {0}, msg : LoadMsgs]] :
            \A i, j \in 1..n : i # j => rows[i].key # rows[j].key} : n \in 0..NumKeys}

\* for _, v := range vals { c.setValue(v) }
RECURSIVE setValues(_, _)
setValues(c, vals) ==
  IF vals = << >> THEN c ELSE setValues(setValue(c, Head(vals)).c, Tail(vals))

\* for _, v := range vals { backend.Evict(v.Key) }
RECURSIVE evictValues(_, _)
evictValues(rows, vals) ==
  IF vals = << >> THEN rows
  ELSE evictValues(BackendEvict(rows, Head(vals).key), Tail(vals))

\* Cache.load, called by New before c.backend is set
Load ==
  /\ ~hasBackend
  /\ last.op = "init"
  /\ IF capacity = 0
       THEN /\ backend' = BackendReset(backend)
            /\ UNCHANGED << values, keys, hasBackend >>
       ELSE LET n == IF capacity < Len(backend) THEN capacity ELSE 0
                c == setValues(CacheState, SubSeq(backend, n + 1, Len(backend)))
            IN /\ values' = c.values
               /\ keys' = c.keys
               /\ backend' = IF capacity < Len(backend)
                               THEN evictValues(backend, SubSeq(backend, 1, n))
                               ELSE backend
               /\ hasBackend' = TRUE
  /\ Done("Load", NoKey, TRUE, NoObj)
  /\ UNCHANGED << muxVars, proxyVars, restVars >>
  /\ UNCHANGED << capacity, prefetch, queue, readers, now, heap, pc, pending,
                  cpc, ctask, watch >>

\* New(capacity, nil) with a backend that holds any rows, before load runs
InitLoad ==
  /\ capacity \in 0..MaxCapacity
  /\ prefetch = FALSE
  /\ hasBackend = FALSE
  /\ values = << >>
  /\ keys = << >>
  /\ backend \in BackendRows
  /\ queue = << >>
  /\ readers = {}
  /\ now = 0
  /\ heap = MsgTable
  /\ pc = [p \in Callers |-> "idle"]
  /\ pending = [p \in Callers |-> NoPending]
  /\ cpc = "idle"
  /\ ctask = NoTask
  /\ last = [op |-> "init", key |-> NoKey, ok |-> FALSE, msg |-> NoObj,
             evictedOther |-> FALSE]
  /\ watch = NoWatch
  /\ MuxIdle /\ ProxyIdle /\ ServerOff /\ LogOff /\ SqlCacheIdle /\ SqlIdle

NextLoad == Load

SpecLoad == InitLoad /\ [][NextLoad]_vars

(***************************************************************************)
(* dnsutil mux.Exchange: one goroutine per client sends its reply to the   *)
(* buffered responses channel or its error to the buffered errs channel;   *)
(* a further goroutine closes both channels after wg.Wait; Exchange        *)
(* returns the first value it receives from responses, or, once responses  *)
(* is closed and empty, the first value of errs.                           *)
(***************************************************************************)
\* the replies the upstream clients give to the mux
MuxReplies == {1, 2}

\* a value received from the buffered channel ch
\* (a receive that takes the value sent last instead)
chanRecvNewest(ch) == ch[Len(ch)]

chanRecv(ch) == ch[1]

\* a channel that is kept from one Exchange to the next
reuseChan(old) == old

\* make(chan T, len(m.clients)): a new, empty channel in the place of old
makeChan(old) == << >>

\* Exchange up to the receive: start one goroutine per client
MuxStart ==
  /\ mpc = "idle"
  /\ upstream' = [u \in Upstreams |-> "running"]
  /\ responses' = makeChan(responses)
  /\ errs' = makeChan(errs)
  /\ mpc' = "wait"
  /\ UNCHANGED << closed, mres, firstOk, late >>
  /\ UNCHANGED << cacheVars, proxyVars, restVars >>

\* client.Exchange of one goroutine returns r: responses <- r
ClientReply(u, r) ==
  /\ upstream[u] = "running"
  /\ upstream' = [upstream EXCEPT ![u] = "done"]
  /\ responses' = Append(responses, [client |-> u, reply |-> r])
  /\ firstOk' = IF firstOk = NoFirst THEN [client |-> u, reply |-> r] ELSE firstOk
  /\ late' = IF mpc = "returned" THEN late \cup {u} ELSE late
  /\ UNCHANGED << errs, closed, mpc, mres >>
  /\ UNCHANGED << cacheVars, proxyVars, restVars >>

\* client.Exchange of one goroutine fails: errs <- err
ClientError(u) ==
  /\ upstream[u] = "running"
  /\ upstream' = [upstream EXCEPT ![u] = "done"]
  /\ errs' = Append(errs, u)
  /\ UNCHANGED << responses, closed, mpc, mres, firstOk, late >>
  /\ UNCHANGED << cacheVars, proxyVars, restVars >>

\* wg.Wait(); close(errs); close(responses)
MuxClose ==
  /\ mpc # "idle"
  /\ ~closed
  /\ \A u \in Upstreams : upstream[u] = "done"
  /\ closed' = TRUE
  /\ UNCHANGED << upstream, responses, errs, mpc, mres, firstOk, late >>
  /\ UNCHANGED << cacheVars, proxyVars, restVars >>

\* for rr := range responses { return rr, nil }
MuxReturnReply ==
  /\ mpc = "wait"
  /\ responses # << >>
  /\ mres' = [ok |-> TRUE, reply |-> chanRecv(responses).reply,
              err |-> 0]
  /\ responses' = SelectSeq(responses, LAMBDA x : x # chanRecv(responses))
  /\ mpc' = "returned"
  /\ UNCHANGED << upstream, errs, closed, firstOk, late >>
  /\ UNCHANGED << cacheVars, proxyVars, restVars >>

\* return nil, <-errs
MuxReturnError ==
  /\ mpc = "wait"
  /\ responses = << >>
  /\ closed
  /\ mres' = [ok |-> FALSE, reply |-> NoObj,
              err |-> IF errs = << >> THEN 0 ELSE chanRecv(errs)]
  /\ errs' = IF errs = << >> THEN errs ELSE Tail(errs)
  /\ mpc' = "returned"
  /\ UNCHANGED << upstream, responses, closed, firstOk, late >>
  /\ UNCHANGED << cacheVars, proxyVars, restVars >>

\* the caller takes the result; the mux can be called again once the
\* goroutines of this call are gone; what is left in the channels of this
\* call stays there, unread
MuxDone ==
  /\ mpc = "returned"
  /\ closed
  /\ upstream' = [u \in Upstreams |-> "idle"]
  /\ UNCHANGED << responses, errs >>
  /\ closed' = FALSE
  /\ mpc' = "idle"
  /\ mres' = NoReply
  /\ firstOk' = NoFirst
  /\ late' = {}
  /\ UNCHANGED << cacheVars, proxyVars, restVars >>

NextMux ==
  \/ MuxStart
  \/ \E u \in Upstreams, r \in MuxReplies : ClientReply(u, r)
  \/ \E u \in Upstreams : ClientError(u)
  \/ MuxClose
  \/ MuxReturnReply
  \/ MuxReturnError
  \/ MuxDone

\* the mux alone, beside a cache that is switched off
InitMux == Init /\ capacity = 0 /\ ~prefetch

SpecMux == InitMux /\ [][NextMux]_vars

(***************************************************************************)
(* cache.NewKey: 32-bit FNV-1a over the bytes of the name, then qtype and  *)
(* qclass in big-endian order.  The 32-bit state is kept as two 16-bit     *)
(* halves << hi, lo >>.                                                    *)
(***************************************************************************)
RECURSIVE Xor(_, _)
Xor(a, b) ==
  IF a = 0 THEN b
  ELSE IF b = 0 THEN a
       ELSE (((a % 2) + (b % 2)) % 2) + (2 * Xor(a \div 2, b \div 2))

\* hash ^= b; hash *= 16777619 (0x01000193), modulo 2^32
fnvWrite(h, b) ==
  LET lo1 == (h[2] - (h[2] % 256)) + Xor(h[2] % 256, b)
      p == lo1 * 403
  IN << ((h[1] * 403) + (p \div 65536) + ((lo1 % 256) * 256)) % 65536,
        p % 65536 >>

RECURSIVE fnvWriteAll(_, _)
fnvWriteAll(h, bytes) ==
  IF bytes = << >> THEN h
  ELSE fnvWriteAll(fnvWrite(h, Head(bytes)), Tail(bytes))

BigEndian16(x) == << x \div 256, x % 256 >>

\* the uint32 with halves << hi, lo >>, as the 32-bit integer with the same bits
Sum32(h) ==
  IF h[1] >= 32768 THEN ((h[1] - 65536) * 65536) + h[2]
  ELSE (h[1] * 65536) + h[2]

\* fnv.New32a starts from the offset basis 2166136261 = 0x811C9DC5
NewKey(name, qtype, qclass) ==
  Sum32(fnvWriteAll(<< 33052, 40389 >>,
                    name \o BigEndian16(qtype) \o BigEndian16(qclass)))

(***************************************************************************)
(* Proxy.ServeDNS.  A client message r has an id, a number of questions,   *)
(* the name of its first question (its type is A, its class IN) and the    *)
(* type of the client's remote address.                                    *)
(***************************************************************************)
TypeA == 1
ClassINET == 1
\* "a." and "h."
NameA == << 97, 46 >>
NameH == << 104, 46 >>
Names == {NameA, NameH}
\* the hosts table of the hijack handler holds the bare name "h"
HijackedNames == { << 104 >> }
\* *net.UDPAddr (writeMsg treats *net.TCPAddr alike) and any other net.Addr
AddrTypes == {"udp", "other"}

nonFqdn(name) ==
  IF Len(name) > 0 /\ name[Len(name)] = 46
  THEN SubSeq(name, 1, Len(name) - 1)
  ELSE name

\* Proxy.reply: whether the handler is asked, and whether it hijacks
reply(r) ==
  IF r.nq # 1
  THEN [asked |-> FALSE, hijacked |-> FALSE]
  ELSE [asked |-> TRUE, hijacked |-> nonFqdn(r.name) \in HijackedNames]

\* dns.Msg.SetReply(r) on message m
SetReply(m, r) ==
  [m EXCEPT !.id = r.id,
            !.rcode = RcodeSuccess,
            !.nq = IF r.nq > 0 THEN 1 ELSE m.nq,
            !.q = IF r.nq > 0 THEN r.name ELSE m.q]

\* Proxy.writeMsg panics on an unexpected address type and on msg.Question[0]
\* of a message without question
writeMsgPanics(addr, nq) == addr \notin {"udp", "tcp"} \/ nq = 0

\* a message object no goroutine and no cache entry refers to
Fresh(o) ==
  /\ \A k \in DOMAIN values : values[k].msg # o
  /\ \A h \in Handlers : hmsg[h] # o

\* the heap once the messages nothing refers to any more are collected
Sweep(hp, vals, held) ==
  [o \in Objs |->
     IF (\E k \in DOMAIN vals : vals[k].msg = o) \/ (\E h \in Handlers : held[h] = o)
     THEN hp[o]
     ELSE MsgTable[o]]

\* an uncaught panic in a goroutine ends the process
Panic(h) ==
  /\ panicked' = TRUE
  /\ hpc' = [hpc EXCEPT ![h] = "panic"]

\* ServeDNS returns: its locals are gone
Return(h) ==
  /\ hpc' = [hpc EXCEPT ![h] = "idle"]
  /\ hreq' = [hreq EXCEPT ![h] = NoRequest]
  /\ hmsg' = [hmsg EXCEPT ![h] = NoObj]
  /\ trace' = [trace EXCEPT ![h] = {}]
  /\ UNCHANGED panicked

\* w.WriteMsg: the message the client of handler h receives
Write(h, kind, id, src) ==
  out' = [to |-> h, kind |-> kind, id |-> id, src |-> src]

\* p.logger.Record(ip, hijacked, msg.Question[0].Qtype, msg.Question[0].Name,
\* ...): ip is the address of w.RemoteAddr(), q the name of the first
\* question of the message that is written
Record(h, hijacked, q) ==
  recorded' = [by |-> h, hijacked |-> hijacked, qtype |-> TypeA, q |-> q,
               addr |-> hreq[h].addr]

\* a step of ServeDNS that does not reach p.logger.Record
NoRecordCall == recorded' = NoRecord

\* a client message arrives and a goroutine starts to serve it
ServeStart(h, nq, name, addr) ==
  /\ ~panicked
  /\ hpc[h] = "idle"
  /\ hpc' = [hpc EXCEPT ![h] = "serve"]
  /\ hreq' = [hreq EXCEPT ![h] = [id |-> h, nq |-> nq, name |-> name, addr |-> addr]]
  /\ UNCHANGED << hmsg, out, trace, panicked >>
  /\ NoRecordCall
  /\ UNCHANGED << cacheVars, muxVars, restVars, keyed >>

\* ServeDNS from p.reply(r) to the return of p.cache.Get(key)
ServeLookup(h) ==
  /\ ~panicked
  /\ hpc[h] = "serve"
  /\ LET r == hreq[h]
         hj == reply(r)
         key == NewKey(r.name, TypeA, ClassINET)
         g == getValue(key)
     IN IF hj.hijacked
        THEN \* p.writeMsg(w, reply, true); the reply carries r's question
             /\ IF writeMsgPanics(r.addr, 1)
                THEN /\ Panic(h)
                     /\ trace' = [trace EXCEPT ![h] = {"hijack"}]
                     /\ UNCHANGED << out, hreq, hmsg >>
                     /\ NoRecordCall
                ELSE /\ Record(h, TRUE, r.name)
                     /\ Write(h, "reply", r.id, "hijack")
                     /\ Return(h)
             /\ UNCHANGED queue
        ELSE IF r.nq = 0
        THEN \* q := r.Question[0]: index out of range
             /\ Panic(h)
             /\ UNCHANGED << hreq, hmsg, trace, out, queue >>
             /\ NoRecordCall
        ELSE /\ g.task # NoTask => Len(queue) < QueueCap
             /\ queue' = IF g.task # NoTask THEN Append(queue, g.task) ELSE queue
             /\ trace' = [trace EXCEPT ![h] =
                            (IF hj.asked THEN {"hijack"} ELSE {}) \cup {"cache"}]
             /\ hmsg' = [hmsg EXCEPT ![h] = IF g.ok THEN g.v.msg ELSE NoObj]
             /\ hpc' = [hpc EXCEPT ![h] = IF g.ok THEN "hit" ELSE "exchange"]
             /\ UNCHANGED << hreq, out, panicked >>
             /\ NoRecordCall
  /\ UNCHANGED << capacity, prefetch, hasBackend, values, keys, backend,
                  readers, now, heap, pc, pending, cpc, ctask, last, watch >>
  /\ UNCHANGED << muxVars, restVars, keyed >>

\* msg.SetReply(r) on the message the cache returned
ServeSetReply(h) ==
  /\ ~panicked
  /\ hpc[h] = "hit"
  /\ heap' = [heap EXCEPT ![hmsg[h]] = SetReply(@, hreq[h])]
  /\ hpc' = [hpc EXCEPT ![h] = "write"]
  /\ UNCHANGED << hreq, hmsg, out, trace, panicked >>
  /\ NoRecordCall
  /\ UNCHANGED << capacity, prefetch, hasBackend, values, keys, backend, queue,
                  readers, now, pc, pending, cpc, ctask, last, watch >>
  /\ UNCHANGED << muxVars, restVars, keyed >>

\* p.writeMsg(w, msg, false) of the cached message
ServeWriteCached(h) ==
  /\ ~panicked
  /\ hpc[h] = "write"
  /\ IF writeMsgPanics(hreq[h].addr, heap[hmsg[h]].nq)
     THEN /\ Panic(h)
          /\ UNCHANGED << out, hreq, hmsg, trace, heap >>
          /\ NoRecordCall
     ELSE /\ Record(h, FALSE, heap[hmsg[h]].q)
          /\ Write(h, "reply", heap[hmsg[h]].id, "cache")
          /\ Return(h)
          /\ heap' = Sweep(heap, values, hmsg')
  /\ UNCHANGED << capacity, prefetch, hasBackend, values, keys, backend, queue,
                  readers, now, pc, pending, cpc, ctask, last, watch >>
  /\ UNCHANGED << muxVars, restVars, keyed >>

\* rr, err := p.client.Exchange(r); on an error dns.HandleFailed(w, r).  The
\* reply is the message the upstream sent under the id of the query: q is the
\* name in its question section
ServeExchange(h, ok, o, q) ==
  /\ ~panicked
  /\ hpc[h] = "exchange"
  /\ IF ok
     THEN /\ Fresh(o)
          /\ o \notin StrayReplies => q = hreq[h].name
          /\ heap' = [heap EXCEPT ![o] = [MsgTable[o] EXCEPT !.id = hreq[h].id,
                                                           !.q = q]]
          /\ hmsg' = [hmsg EXCEPT ![h] = o]
          /\ hpc' = [hpc EXCEPT ![h] = "forward"]
          /\ trace' = [trace EXCEPT ![h] = @ \cup {"upstream"}]
          /\ UNCHANGED << out, hreq, panicked >>
          /\ NoRecordCall
     ELSE /\ q = hreq[h].name
          /\ Write(h, "servfail", hreq[h].id, "none")
          /\ Return(h)
          /\ UNCHANGED heap
          /\ NoRecordCall
  /\ UNCHANGED << capacity, prefetch, hasBackend, values, keys, backend, queue,
                  readers, now, pc, pending, cpc, ctask, last, watch >>
  /\ UNCHANGED << muxVars, restVars, keyed >>

\* p.writeMsg(w, rr, false); p.cache.Set(key, rr)
ServeForward(h) ==
  /\ ~panicked
  /\ hpc[h] = "forward"
  /\ readers = {}
  /\ IF writeMsgPanics(hreq[h].addr, heap[hmsg[h]].nq)
     THEN /\ Panic(h)
          /\ UNCHANGED << out, hreq, hmsg, trace, heap, values, keys, backend >>
          /\ NoRecordCall
     ELSE /\ Record(h, FALSE, heap[hmsg[h]].q)
          /\ Write(h, "reply", heap[hmsg[h]].id, "upstream")
          /\ Install(set(CacheState,
                         NewKey(hreq[h].name, TypeA, ClassINET), hmsg[h]).c)
          /\ Return(h)
          /\ heap' = Sweep(heap, values', hmsg')
  /\ UNCHANGED << capacity, prefetch, hasBackend, queue, readers, now,
                  pc, pending, cpc, ctask, last, watch >>
  /\ UNCHANGED << muxVars, restVars, keyed >>

\* the handlers while the cached entries are fresh: the clock stands still
NextProxy ==
  \/ \E h \in Handlers, nq \in 0..MaxQuestions, name \in Names, addr \in AddrTypes :
       ServeStart(h, nq, name, addr)
  \/ \E h \in Handlers : ServeLookup(h)
  \/ \E h \in Handlers : ServeSetReply(h)
  \/ \E h \in Handlers : ServeWriteCached(h)
  \/ \E h \in Handlers, ok \in BOOLEAN, o \in ProxyReplies, q \in Names :
       ServeExchange(h, ok, o, q)
  \/ \E h \in Handlers : ServeForward(h)

SpecProxy == Init /\ [][NextProxy]_vars

(***************************************************************************)
(* The hosts tables and the hijack handler (package zdns).  A table maps   *)
(* bare names to lists of addresses; an address has a family.              *)
(***************************************************************************)
TypeAAAA == 28
TypeMX == 15
\* the TTL of a synthesized record
HijackTTL == 3600

Addr(fam, ip) == [fam |-> fam, ip |-> ip]
IPv4zero == Addr(4, "0.0.0.0")
IPv6zero == Addr(6, "::")

\* the bare names "x" and "y"
HostX == << 120 >>
HostY == << 121 >>

\* what a source can hold when it is read
SourceTables ==
  { (HostX :> << Addr(4, "192.0.2.1"), Addr(6, "2001:db8::1") >>),
    (HostX :> << Addr(6, "2001:db8::2") >>) @@ (HostY :> << Addr(4, "192.0.2.2") >>) }

\* the entries of an inline source
InlineTable == (HostX :> << Addr(4, "0.0.0.0") >>)

\* the configurations of one source: a URL to hijack, a URL or an inline
\* list not to hijack
SourceConfigs ==
  { [hijack |-> TRUE, inline |-> FALSE],
    [hijack |-> FALSE, inline |-> FALSE],
    [hijack |-> FALSE, inline |-> TRUE] }

ReadError == [err |-> TRUE, hosts |-> EmptyHosts]
ReadOk(t) == [err |-> FALSE, hosts |-> t]

\* the outcomes of reading source h: h.hosts for an inline source, else
\* what readHosts returns
ReadOutcomes(h) ==
  IF h.inline THEN {ReadOk(InlineTable)}
  ELSE {ReadError} \cup {ReadOk(t) : t \in SourceTables}

\* Hosts.Get
Get(hs, name) ==
  IF name \in DOMAIN hs
  THEN [ipAddrs |-> hs[name], ok |-> TRUE]
  ELSE [ipAddrs |-> << >>, ok |-> FALSE]

\* Hosts.Del
Del(hs, name) == Without(hs, name)

\* a merge that keeps the entry of the earlier source
upsertKeepFirst(hs, hs1) ==
  [n \in (DOMAIN hs) \cup (DOMAIN hs1) |-> IF n \in DOMAIN hs THEN hs[n] ELSE hs1[n]]

RECURSIVE upsertNames(_, _, _)
upsertNames(hs, hs1, names) ==
  IF names = {} THEN hs
  ELSE LET name == CHOOSE n \in names : TRUE
       IN upsertNames(With(hs, name, hs1[name]), hs1, names \ {name})

\* for name, ipAddrs := range hs1 { hs[name] = ipAddrs }
upsert(hs, hs1) == upsertNames(hs, hs1, DOMAIN hs1)

\* a hijack=false source that removes nothing
removeNone(hs, hs1) == hs

RECURSIVE removeNames(_, _)
removeNames(hs, names) ==
  IF names = {} THEN hs
  ELSE LET hostToRemove == CHOOSE n \in names : TRUE
       IN removeNames(IF Get(hs, hostToRemove).ok THEN Del(hs, hostToRemove) ELSE hs,
                      names \ {hostToRemove})

\* for hostToRemove := range hs1 { ... hs.Del(hostToRemove) }
remove(hs, hs1) == removeNames(hs, DOMAIN hs1)

\* the table behind a map reference; a nil map has no entries
TableOf(o) == IF o = NilHosts THEN EmptyHosts ELSE tables[o]

\* dns.ReplyA and dns.ReplyAAAA: one record per address
ReplyOf(rrtype, name, ipAddr) ==
  [nil |-> FALSE,
   rr |-> [i \in 1..Len(ipAddr) |->
             [name |-> name, rrtype |-> rrtype, class |-> ClassINET,
              ttl |-> HijackTTL, ip |-> ipAddr[i].ip]]]

ReplyA(name, ipAddr) == ReplyOf(TypeA, name, ipAddr)
ReplyAAAA(name, ipAddr) == ReplyOf(TypeAAAA, name, ipAddr)

\* a family test that takes every address for an IPv6 address
IsIPv6Always(a) == TRUE

\* ipAddr.IP.To4() == nil
IsIPv6(a) == a.fam = 6

\* Server.hijack on the table hs
hijack(hs, mode, r) ==
  IF r.type # TypeA /\ r.type # TypeAAAA
  THEN NilReply
  ELSE LET g == Get(hs, nonFqdn(r.name)) IN
       IF ~g.ok THEN NilReply
       ELSE IF mode = HijackZero
            THEN IF r.type = TypeA
                 THEN ReplyA(r.name, << IPv4zero >>)
                 ELSE ReplyAAAA(r.name, << IPv6zero >>)
       ELSE IF mode = HijackEmpty
            THEN [nil |-> FALSE, rr |-> << >>]
       ELSE IF mode = HijackHosts
            THEN IF r.type = TypeA
                 THEN ReplyA(r.name, SelectSeq(g.ipAddrs, LAMBDA a : ~IsIPv6(a)))
                 ELSE ReplyAAAA(r.name, SelectSeq(g.ipAddrs, LAMBDA a : IsIPv6(a)))
       ELSE NilReply

\* Proxy.reply for a message with the one question r: the message made
\* from the handler's reply
replyMsg(rep) ==
  IF rep.nil THEN NotHijacked
  ELSE [hijacked |-> TRUE, rcode |-> RcodeSuccess, answer |-> rep.rr]

\* the questions asked of the handler
Requests ==
  { [type |-> t, name |-> n] :
      t \in {TypeA, TypeAAAA, TypeMX}, n \in { << 120, 46 >>, HostY, << 122, 46 >> } }

\* p.reply(r) of a query: the hijack lookup under s.mu.RLock
Hijack(r) ==
  /\ smu = 0
  /\ hres' = [type |-> r.type, name |-> r.name,
              msg |-> replyMsg(hijack(TableOf(hosts), hijackMode, r))]
  /\ UNCHANGED << sources, hijackMode, hosts, tables, smu, lpc, li, lhs, lreads,
                  lfailed, installed >>
  /\ UNCHANGED << cacheVars, muxVars, proxyVars, logVars, sqlCacheVars, sqlVars,
                  signalVars >>

\* the tables a load of up to two sources can install
InstallableTables ==
  LET base == SourceTables \cup {EmptyHosts, InlineTable}
  IN {upsert(a, b) : a \in base, b \in base} \cup {remove(a, b) : a \in base, b \in base}

\* a Server with some table installed, no load running
InitHijack ==
  /\ CacheInit /\ capacity = 0 /\ ~prefetch
  /\ MuxIdle
  /\ ProxyIdle
  /\ sources = << >>
  /\ hijackMode \in {HijackZero, HijackEmpty, HijackHosts}
  /\ hosts \in {NilHosts, 1}
  /\ \E t \in InstallableTables :
       tables = [o \in 1..(NumLoaders + 1) |->
                   IF o = 1 /\ hosts = 1 THEN t ELSE EmptyHosts]
  /\ smu = 0
  /\ lpc = [l \in Loaders |-> "idle"]
  /\ li = [l \in Loaders |-> 0]
  /\ lhs = [l \in Loaders |-> NilHosts]
  /\ lreads = [l \in Loaders |-> << >>]
  /\ lfailed = [l \in Loaders |-> {}]
  /\ installed = << >>
  /\ hres = NoLookup
  /\ LogOff /\ SqlCacheIdle /\ SqlIdle

NextHijack == \E r \in Requests : Hijack(r)

SpecHijack == InitHijack /\ [][NextHijack]_vars

(***************************************************************************)
(* Server.loadHosts, run by the ticker goroutine and the signal goroutine. *)
(***************************************************************************)
\* the map objects nothing refers to
FreeTables == {o \in DOMAIN tables : o # hosts /\ \A l \in Loaders : lhs[l] # o}

\* a load that clears the installed map and merges into it
makeHostsInPlace(current, fresh) == IF current = NilHosts THEN fresh ELSE current

\* hs := make(hosts.Hosts): a new map object
makeHosts(current, fresh) == fresh

\* the map objects once those nothing refers to are collected
SweepTables(tb, current, held) ==
  [o \in DOMAIN tb |->
     IF o = current \/ (\E l \in Loaders : held[l] = o) THEN tb[o] ELSE EmptyHosts]

\* loadHosts is called
LoadStart(l) ==
  /\ lpc[l] = "idle"
  /\ FreeTables # {}
  /\ LET o == makeHosts(hosts, CHOOSE f \in FreeTables : \A g \in FreeTables : f <= g)
     IN /\ lhs' = [lhs EXCEPT ![l] = o]
        /\ tables' = [tables EXCEPT ![o] = EmptyHosts]
  /\ li' = [li EXCEPT ![l] = 1]
  /\ lreads' = [lreads EXCEPT ![l] = << >>]
  /\ lfailed' = [lfailed EXCEPT ![l] = {}]
  /\ lpc' = [lpc EXCEPT ![l] = IF Len(sources) = 0 THEN "lock" ELSE "read"]
  /\ UNCHANGED << sources, hijackMode, hosts, smu, installed, hres >>
  /\ UNCHANGED << cacheVars, muxVars, proxyVars, logVars, sqlCacheVars, sqlVars,
                  signalVars >>

\* one round of the loop over s.Config.Hosts; res is what the source gives
LoadSource(l, res) ==
  /\ lpc[l] = "read"
  /\ LET h == sources[li[l]]
     IN /\ res \in ReadOutcomes(h)
        /\ tables' = [tables EXCEPT ![lhs[l]] =
                        IF res.err THEN @
                        ELSE IF h.hijack THEN upsert(@, res.hosts)
                        ELSE remove(@, res.hosts)]
        /\ lfailed' = [lfailed EXCEPT ![l] = IF res.err THEN @ \cup {li[l]} ELSE @]
  /\ lreads' = [lreads EXCEPT ![l] = Append(@, res)]
  /\ li' = [li EXCEPT ![l] = @ + 1]
  /\ lpc' = [lpc EXCEPT ![l] = IF li[l] = Len(sources) THEN "lock" ELSE "read"]
  /\ UNCHANGED << sources, hijackMode, hosts, smu, lhs, installed, hres >>
  /\ UNCHANGED << cacheVars, muxVars, proxyVars, logVars, sqlCacheVars, sqlVars,
                  signalVars >>

\* s.mu.Lock()
LoadLock(l) ==
  /\ lpc[l] = "lock"
  /\ smu = 0
  /\ smu' = l
  /\ lpc' = [lpc EXCEPT ![l] = "swap"]
  /\ UNCHANGED << sources, hijackMode, hosts, tables, li, lhs, lreads, lfailed,
                  installed, hres >>
  /\ UNCHANGED << cacheVars, muxVars, proxyVars, logVars, sqlCacheVars, sqlVars,
                  signalVars >>

\* s.hosts = hs; s.mu.Unlock(); loadHosts returns
LoadSwap(l) ==
  /\ lpc[l] = "swap"
  /\ hosts' = lhs[l]
  /\ installed' = lreads[l]
  /\ smu' = 0
  /\ lpc' = [lpc EXCEPT ![l] = "idle"]
  /\ li' = [li EXCEPT ![l] = 0]
  /\ lhs' = [lhs EXCEPT ![l] = NilHosts]
  /\ lreads' = [lreads EXCEPT ![l] = << >>]
  /\ lfailed' = [lfailed EXCEPT ![l] = {}]
  /\ tables' = SweepTables(tables, hosts', lhs')
  /\ UNCHANGED << sources, hijackMode, hres >>
  /\ UNCHANGED << cacheVars, muxVars, proxyVars, logVars, sqlCacheVars, sqlVars,
                  signalVars >>

\* a Server with its configured sources and the default hijack mode, before
\* the first load
InitHosts ==
  /\ CacheInit /\ capacity = 0 /\ ~prefetch
  /\ MuxIdle
  /\ ProxyIdle
  /\ sources \in [1..NumSources -> SourceConfigs]
  /\ hijackMode = HijackZero
  /\ ServerIdle
  /\ LogOff /\ SqlCacheIdle /\ SqlIdle

NextHosts ==
  \/ \E l \in Loaders : LoadStart(l)
  \/ \E l \in Loaders, res \in {ReadError} \cup {ReadOk(t) : t \in SourceTables \cup {InlineTable}} :
       LoadSource(l, res)
  \/ \E l \in Loaders : LoadLock(l)
  \/ \E l \in Loaders : LoadSwap(l)
  \/ \E r \in {q \in Requests : q.type = TypeA} : Hijack(r)

SpecHosts == InitHosts /\ [][NextHosts]_vars

(***************************************************************************)
(* NewKey as a function of the question.  The proxy keys the question of   *)
(* a request as it arrives (q.Name, q.Qtype, q.Qclass); a run of the       *)
(* process keys the questions it is asked, one after the other.            *)
(***************************************************************************)
ClassANY == 255
\* "a.", "h." and "A."
KeyNames == {NameA, NameH, << 65, 46 >>}

\* key := cache.NewKey(q.Name, q.Qtype, q.Qclass) in run r of the process
KeyOf(r, name, qtype, qclass) ==
  /\ keyed' = [keyed EXCEPT ![r] = [name |-> name, qtype |-> qtype,
                                    qclass |-> qclass,
                                    key |-> NewKey(name, qtype, qclass)]]
  /\ UNCHANGED << hpc, hreq, hmsg, out, recorded, trace, panicked >>
  /\ UNCHANGED << cacheVars, muxVars, restVars >>

InitKey == Init /\ capacity = 0 /\ ~prefetch

NextKey ==
  \E r \in KeyRuns, name \in KeyNames, qtype \in {TypeA, TypeAAAA},
     qclass \in {ClassINET, ClassANY} :
    KeyOf(r, name, qtype, qclass)

SpecKey == InitKey /\ [][NextKey]_vars

(***************************************************************************)
(* sql.Logger: Record, the readQueue goroutine and Close, with              *)
(* Proxy.writeMsg as the caller of Record.                                  *)
(***************************************************************************)
notLogVars == << cacheVars, muxVars, proxyVars, serverVars, sqlCacheVars,
                sqlVars, signalVars >>

\* a row that an earlier run of the program left in table log
OldRow == [id |-> 0, hijacked |-> TRUE, time |-> 0 - 1]

SeqIds(q) == {q[i].id : i \in DOMAIN q}

recordAcceptsAll(mode, hijacked) == mode # LogDiscard

\* the two early returns of Record
recordAccepts(mode, hijacked) ==
  /\ ~(mode = LogDiscard)
  /\ ~(mode = LogHijacked /\ ~hijacked)

logRecvNewest(q) == [e |-> q[Len(q)], rest |-> SubSeq(q, 1, Len(q) - 1)]

\* for e := range l.queue: the oldest entry of the channel
logRecv(q) == [e |-> Head(q), rest |-> Tail(q)]

\* DELETE FROM log WHERE id IN (SELECT id FROM log WHERE time < t)
deleteLogBefore(rws, t) == SelectSeq(rws, LAMBDA r : ~(r.time < t))

\* ServeDNS calls writeMsg(w, msg, hijacked) for a query, and writeMsg calls
\* Record: the mode checks, wg.Add(1) and the evaluation of the LogEntry
\* with Time: l.now(), up to the channel send
RecordAdd(h, hijacked) ==
  /\ rpc[h] = "idle"
  /\ nrec < MaxRecords
  /\ nrec' = nrec + 1
  /\ rrec' = [rrec EXCEPT ![h] = [id |-> nrec + 1, hijacked |-> hijacked, time |-> lnow]]
  /\ IF recordAccepts(logMode, hijacked)
       THEN /\ lwg' = lwg + 1
            /\ rpc' = [rpc EXCEPT ![h] = "send"]
       ELSE /\ rpc' = [rpc EXCEPT ![h] = "reply"]
            /\ UNCHANGED lwg
  /\ UNCHANGED << logMode, logTTL, lnow, lqueue, wpc, wcur, logRows, committed,
                  failed, accepted, replied, closing, closeSeen >>
  /\ UNCHANGED notLogVars

\* l.queue <- LogEntry{...}: waits while the channel is full; then Record
\* returns
RecordSend(h) ==
  /\ rpc[h] = "send"
  /\ Len(lqueue) < LogQueueCap
  /\ lqueue' = Append(lqueue, rrec[h])
  /\ accepted' = Append(accepted, rrec[h].id)
  /\ rpc' = [rpc EXCEPT ![h] = "reply"]
  /\ UNCHANGED << logMode, logTTL, lnow, lwg, wpc, wcur, logRows, committed,
                  failed, rrec, nrec, replied, closing, closeSeen >>
  /\ UNCHANGED notLogVars

\* w.WriteMsg(msg), the last statement of writeMsg
WriteReply(h) ==
  /\ rpc[h] = "reply"
  /\ replied' = replied \cup {rrec[h].id}
  /\ rpc' = [rpc EXCEPT ![h] = "idle"]
  /\ rrec' = [rrec EXCEPT ![h] = NoEntry]
  /\ UNCHANGED << logMode, logTTL, lnow, lqueue, lwg, wpc, wcur, logRows,
                  committed, failed, nrec, accepted, closing, closeSeen >>
  /\ UNCHANGED notLogVars

\* readQueue receives the next entry
LogRecv ==
  /\ wpc = "recv"
  /\ lqueue # << >>
  /\ wcur' = logRecv(lqueue).e
  /\ lqueue' = logRecv(lqueue).rest
  /\ wpc' = "write"
  /\ UNCHANGED << logMode, logTTL, lnow, lwg, logRows, committed, failed, rpc,
                  rrec, nrec, accepted, replied, closing, closeSeen >>
  /\ UNCHANGED notLogVars

\* l.client.writeLog(...): one transaction that inserts the row, or an
\* error that readQueue logs
LogWrite(ok) ==
  /\ wpc = "write"
  /\ IF ok
       THEN /\ logRows' = Append(logRows, wcur)
            /\ committed' = Append(committed, wcur.id)
            /\ UNCHANGED failed
       ELSE /\ failed' = failed \cup {wcur.id}
            /\ UNCHANGED << logRows, committed >>
  /\ wpc' = "prune"
  /\ UNCHANGED << logMode, logTTL, lnow, lqueue, lwg, wcur, rpc, rrec, nrec,
                  accepted, replied, closing, closeSeen >>
  /\ UNCHANGED notLogVars

\* the rest of the loop body: deleteLogBefore(now - ttl) when ttl > 0, which
\* can fail too, then l.wg.Done()
LogPruneDone(ok) ==
  /\ wpc = "prune"
  /\ logRows' = IF logTTL > 0 /\ ok
                  THEN deleteLogBefore(logRows, lnow - logTTL)
                  ELSE logRows
  /\ lwg' = lwg - 1
  /\ wcur' = NoEntry
  /\ wpc' = "recv"
  /\ UNCHANGED << logMode, logTTL, lnow, lqueue, committed, failed, rpc, rrec,
                  nrec, accepted, replied, closing, closeSeen >>
  /\ UNCHANGED notLogVars

\* Close is called
LogClose ==
  /\ closing = "idle"
  /\ closing' = "wait"
  /\ closeSeen' = {accepted[i] : i \in DOMAIN accepted}
  /\ UNCHANGED << logMode, logTTL, lnow, lqueue, lwg, wpc, wcur, logRows,
                  committed, failed, rpc, rrec, nrec, accepted, replied >>
  /\ UNCHANGED notLogVars

\* l.wg.Wait() returns, and Close with it
LogCloseReturn ==
  /\ closing = "wait"
  /\ lwg = 0
  /\ closing' = "returned"
  /\ UNCHANGED << logMode, logTTL, lnow, lqueue, lwg, wpc, wcur, logRows,
                  committed, failed, rpc, rrec, nrec, accepted, replied,
                  closeSeen >>
  /\ UNCHANGED notLogVars

\* time passes
LogTick ==
  /\ lnow < MaxLogTime
  /\ lnow' = lnow + 1
  /\ UNCHANGED << logMode, logTTL, lqueue, lwg, wpc, wcur, logRows, committed,
                  failed, rpc, rrec, nrec, accepted, replied, closing,
                  closeSeen >>
  /\ UNCHANGED notLogVars

\* NewLogger(client, mode, ttl) for every mode, with and without a ttl, on
\* a database that is empty or holds an old row; readQueue is started
\* unless the mode is LogDiscard
InitLog ==
  /\ CacheInit /\ capacity = 0 /\ ~prefetch
  /\ MuxIdle
  /\ ProxyIdle
  /\ ServerOff
  /\ SqlCacheIdle /\ SqlIdle
  /\ logMode \in {LogDiscard, LogAll, LogHijacked}
  /\ logTTL \in {0, 1}
  /\ logRows \in {<< >>, << OldRow >>}
  /\ wpc = IF logMode # LogDiscard THEN "recv" ELSE "off"
  /\ LogIdle

NextLog ==
  \/ \E h \in Recorders, hijacked \in BOOLEAN : RecordAdd(h, hijacked)
  \/ \E h \in Recorders : RecordSend(h)
  \/ \E h \in Recorders : WriteReply(h)
  \/ LogRecv
  \/ \E ok \in BOOLEAN : LogWrite(ok)
  \/ \E ok \in BOOLEAN : LogPruneDone(ok)
  \/ LogClose
  \/ LogCloseReturn
  \/ LogTick

SpecLog == InitLog /\ [][NextLog]_vars

\* every goroutine is scheduled whenever it can take a step, and the clock
\* goes on; whether a further query arrives is left open
SpecLogFair ==
  /\ SpecLog
  /\ \A h \in Recorders : WF_vars(RecordSend(h)) /\ WF_vars(WriteReply(h))
  /\ WF_vars(LogRecv)
  /\ WF_vars(\E ok \in BOOLEAN : LogWrite(ok))
  /\ WF_vars(LogPruneDone(TRUE))
  /\ WF_vars(LogTick)

(***************************************************************************)
(* sql.Client: writeLog, readLog and deleteLogBefore on the tables of the   *)
(* log. A dimension table (rr_type, rr_question, rr_answer, remote_addr)    *)
(* has one row per value (UNIQUE), so it is the set of its values and a     *)
(* referencing column holds the value.                                      *)
(***************************************************************************)
notSqlVars == << cacheVars, muxVars, proxyVars, serverVars, logVars,
                 sqlCacheVars, signalVars >>

\* the entries given to writeLog
LogEntries ==
  {[time |-> t, qtype |-> q[1], question |-> q[2], addr |-> 1, answers |-> q[3]] :
     t \in 0..MaxLogTime,
     q \in {<< TypeA, 1, << 1 >> >>, << TypeA, 2, << 1, 2 >> >>,
            << TypeAAAA, 2, << >> >>}}

SeqRange(q) == {q[i] : i \in DOMAIN q}

MaxId(log) ==
  IF log = {} THEN 0 ELSE CHOOSE i \in {r.id : r \in log} : \A r \in log : r.id <= i

\* INTEGER PRIMARY KEY: the rowid of a new row is the largest one plus one
NextLogId(log) == MaxId(log) + 1

\* the getOrInsert calls of writeLog
insertDims(db, e) ==
  [db EXCEPT !.rr_type = @ \cup {e.qtype},
             !.rr_question = @ \cup {e.question},
             !.remote_addr = @ \cup {e.addr},
             !.rr_answer = @ \cup SeqRange(e.answers)]

\* INSERT INTO log; the history field given keeps the answers the entry
\* was written with
insertLog(db, e) ==
  [db EXCEPT !.log = @ \cup {[id |-> NextLogId(db.log), time |-> e.time,
                              qtype |-> e.qtype, question |-> e.question,
                              addr |-> e.addr, given |-> SeqRange(e.answers)]}]

\* INSERT INTO log_rr_answer for each answer, with logID the LastInsertId
insertLinks(db, e) ==
  [db EXCEPT !.log_rr_answer =
     @ \cup {[log |-> MaxId(db.log), answer |-> a] : a \in SeqRange(e.answers)}]

rollbackKeep(before, working) == working

\* defer tx.Rollback(): the database is what it was before Beginx
rollback(before, working) == before

\* the SELECT of readLog, with the rows of one log id merged as Logger.Read
\* merges them: the n most recent rows by time and id that join with their
\* dimension rows, each with the answers linked to it
readLog(db, n) ==
  LET newer(a, b) == a.time > b.time \/ (a.time = b.time /\ a.id > b.id)
      top == {r \in db.log : Cardinality({o \in db.log : newer(o, r)}) < n}
  IN {[id |-> r.id, time |-> r.time, qtype |-> r.qtype, question |-> r.question,
       addr |-> r.addr, given |-> r.given,
       answers |-> {l.answer : l \in {k \in db.log_rr_answer :
                                        k.log = r.id /\ k.answer \in db.rr_answer}}] :
        r \in {x \in top : /\ x.qtype \in db.rr_type
                           /\ x.question \in db.rr_question
                           /\ x.addr \in db.remote_addr}}

\* SELECT id FROM log WHERE time < t ORDER BY time ASC LIMIT 999: the sets
\* of rows the SELECT can give; which of several rows of the same time come
\* first is not specified
pruneSelections(log, t) ==
  LET eligible == {r \in log : r.time < t}
      k == IF Cardinality(eligible) < PruneLimit
             THEN Cardinality(eligible) ELSE PruneLimit
  IN {sel \in SUBSET eligible :
        /\ Cardinality(sel) = k
        /\ \A a \in sel, b \in eligible \ sel : a.time <= b.time}

\* the DELETE statements of deleteLogBefore for the selected rows: the
\* answer links and the log rows by id, then every dimension row that no
\* remaining row references
pruneLog(db, sel) ==
  IF sel = {} THEN db
  ELSE LET log == db.log \ sel
           links == {l \in db.log_rr_answer : l.log \notin {r.id : r \in sel}}
       IN [log |-> log,
           log_rr_answer |-> links,
           rr_type |-> {v \in db.rr_type : v \in {r.qtype : r \in log}},
           rr_question |-> {v \in db.rr_question : v \in {r.question : r \in log}},
           rr_answer |-> {v \in db.rr_answer : v \in {l.answer : l \in links}},
           remote_addr |-> {v \in db.remote_addr : v \in {r.addr : r \in log}}]

\* writeLog takes c.mu and begins the transaction
WriteLogBegin(e) ==
  /\ sqlMu = "free"
  /\ sqlPc = "idle"
  /\ NextLogId(sqlDb.log) <= MaxLogId
  /\ sqlMu' = "locked"
  /\ sqlTx' = [open |-> TRUE, db |-> sqlDb]
  /\ sqlArg' = e
  /\ sqlPc' = "dims"
  /\ UNCHANGED << sqlDb, sqlRead >>
  /\ UNCHANGED notSqlVars

WriteLogDims ==
  /\ sqlPc = "dims"
  /\ sqlTx' = [sqlTx EXCEPT !.db = insertDims(@, sqlArg)]
  /\ sqlPc' = "log"
  /\ UNCHANGED << sqlDb, sqlMu, sqlArg, sqlRead >>
  /\ UNCHANGED notSqlVars

WriteLogRow ==
  /\ sqlPc = "log"
  /\ sqlTx' = [sqlTx EXCEPT !.db = insertLog(@, sqlArg)]
  /\ sqlPc' = "links"
  /\ UNCHANGED << sqlDb, sqlMu, sqlArg, sqlRead >>
  /\ UNCHANGED notSqlVars

WriteLogLinks ==
  /\ sqlPc = "links"
  /\ sqlTx' = [sqlTx EXCEPT !.db = insertLinks(@, sqlArg)]
  /\ sqlPc' = "commit"
  /\ UNCHANGED << sqlDb, sqlMu, sqlArg, sqlRead >>
  /\ UNCHANGED notSqlVars

\* tx.Commit() succeeds; the deferred Unlock follows
WriteLogCommit ==
  /\ sqlPc = "commit"
  /\ sqlDb' = sqlTx.db
  /\ sqlTx' = NoTx
  /\ sqlMu' = "free"
  /\ sqlPc' = "idle"
  /\ sqlArg' = NoLogEntry
  /\ UNCHANGED sqlRead
  /\ UNCHANGED notSqlVars

\* a statement of the transaction, or the commit, returns an error: writeLog
\* returns it, the deferred Rollback and Unlock run
WriteLogFail ==
  /\ sqlPc \in {"dims", "log", "links", "commit"}
  /\ sqlDb' = rollback(sqlDb, sqlTx.db)
  /\ sqlTx' = NoTx
  /\ sqlMu' = "free"
  /\ sqlPc' = "idle"
  /\ sqlArg' = NoLogEntry
  /\ UNCHANGED sqlRead
  /\ UNCHANGED notSqlVars

\* readLog(n), under c.mu.RLock
ReadLog(n) ==
  /\ sqlMu = "free"
  /\ sqlRead' = readLog(sqlDb, n)
  /\ UNCHANGED << sqlDb, sqlTx, sqlMu, sqlPc, sqlArg >>
  /\ UNCHANGED notSqlVars

\* deleteLogBefore(t), under c.mu.Lock: one SELECT of at most 999 ids, the
\* deletes and the commit, or an error and the rollback
DeleteLogBefore(t, ok) ==
  /\ sqlMu = "free"
  /\ \E sel \in pruneSelections(sqlDb.log, t) :
       sqlDb' = IF ok THEN pruneLog(sqlDb, sel)
                      ELSE rollback(sqlDb, pruneLog(sqlDb, sel))
  /\ UNCHANGED << sqlTx, sqlMu, sqlPc, sqlArg, sqlRead >>
  /\ UNCHANGED notSqlVars

InitSql ==
  /\ CacheInit /\ capacity = 0 /\ ~prefetch
  /\ MuxIdle
  /\ ProxyIdle
  /\ ServerOff
  /\ LogOff
  /\ SqlCacheIdle
  /\ SqlIdle

NextSql ==
  \/ \E e \in LogEntries : WriteLogBegin(e)
  \/ WriteLogDims
  \/ WriteLogRow
  \/ WriteLogLinks
  \/ WriteLogCommit
  \/ WriteLogFail
  \/ \E n \in {1, MaxLogId} : ReadLog(n)
  \/ \E t \in 0..(MaxLogTime + 1), ok \in BOOLEAN : DeleteLogBefore(t, ok)

SpecSql == InitSql /\ [][NextSql]_vars

(***************************************************************************)
(* signal.Handler and the closers newCli registers.  The three queues are  *)
(* kept as counters: entries are handled in the order they were enqueued,  *)
(* entry i of a queue is the i-th one enqueued.                            *)
(***************************************************************************)
notSignalVars == << cacheVars, muxVars, proxyVars, serverVars, logVars,
                    sqlCacheVars, sqlVars >>

Signals == {"SIGHUP", "SIGTERM", "SIGINT", "SIGUSR1"}

\* a registration that closes the store before the queues that write to it
ClosersStoreFirst ==
  << "proxy", "cache", "sqlClient", "logger", "sqlCache", "server" >>

\* the closers in the order of the OnClose calls, for a configuration with a
\* database and without the HTTP server
Closers == << "proxy", "cache", "logger", "sqlCache", "sqlClient", "server" >>

\* the queue whose wait group the Close of a closer waits for
waitsFor(name) ==
  IF name = "cache" THEN {"task"}
  ELSE IF name = "logger" THEN {"log"}
  ELSE IF name = "sqlCache" THEN {"sqlCache"}
  ELSE {}

\* the operating system delivers a signal: signal.Notify sends without
\* blocking and drops the signal when the channel is full
SigArrive(sig) ==
  /\ ~crashed
  /\ ~shStopped
  /\ shSent < MaxSignals
  /\ Len(shChan) < 1
  /\ shChan' = Append(shChan, sig)
  /\ shSent' = shSent + 1
  /\ UNCHANGED << shPc, shIdx, shClosed, shReloaded, shStopped, listening,
                  storeOpen, crashed, qwg, qenq, qdone, qlost, atSignal >>
  /\ UNCHANGED notSignalVars

\* for sig := range s.signal, and the switch on sig
SigRecv ==
  /\ ~crashed
  /\ shPc = "recv"
  /\ shChan # << >>
  /\ shChan' = Tail(shChan)
  /\ LET sig == Head(shChan) IN
     IF sig = "SIGHUP"
       THEN /\ shPc' = "reload"
            /\ shIdx' = 1
            /\ shReloaded' = << >>
            /\ UNCHANGED << shClosed, atSignal >>
       ELSE IF sig \in {"SIGTERM", "SIGINT"}
       THEN /\ shPc' = "stop"
            /\ shIdx' = 1
            /\ shClosed' = << >>
            /\ atSignal' = IF \A q \in Queues : atSignal[q] = -1
                              THEN qenq ELSE atSignal
            /\ UNCHANGED shReloaded
       ELSE UNCHANGED << shPc, shIdx, shClosed, shReloaded, atSignal >>
  /\ UNCHANGED << shStopped, shSent, listening, storeOpen, crashed, qwg, qenq,
                  qdone, qlost >>
  /\ UNCHANGED notSignalVars

\* signal.Stop(s.signal)
SigStop ==
  /\ ~crashed
  /\ shPc = "stop"
  /\ shStopped' = TRUE
  /\ shPc' = "close"
  /\ UNCHANGED << shChan, shIdx, shClosed, shReloaded, shSent, listening,
                  storeOpen, crashed, qwg, qenq, qdone, qlost, atSignal >>
  /\ UNCHANGED notSignalVars

\* r.Reload() of the next reloader
SigReload ==
  /\ ~crashed
  /\ shPc = "reload"
  /\ shReloaded' = Append(shReloaded, shIdx)
  /\ IF shIdx = NumReloaders
       THEN shPc' = "recv" /\ shIdx' = 0
       ELSE shIdx' = shIdx + 1 /\ UNCHANGED shPc
  /\ UNCHANGED << shChan, shClosed, shStopped, shSent, listening, storeOpen,
                  crashed, qwg, qenq, qdone, qlost, atSignal >>
  /\ UNCHANGED notSignalVars

\* c.Close() of the next closer returns, with or without an error: the proxy
\* shuts its server down, cache, logger and sql.Cache wait for their wait
\* group and return nil, the sql.Client closes the database
SigClose(err) ==
  /\ ~crashed
  /\ shPc = "close"
  /\ LET name == Closers[shIdx] IN
     /\ \A q \in waitsFor(name) : qwg[q] = 0
     /\ err => waitsFor(name) = {}
     /\ listening' = IF name = "proxy" THEN FALSE ELSE listening
     /\ storeOpen' = IF name = "sqlClient" THEN FALSE ELSE storeOpen
     /\ shClosed' = Append(shClosed, [name |-> name, err |-> err])
  /\ IF shIdx = Len(Closers)
       THEN shPc' = "recv" /\ shIdx' = 0
       ELSE shIdx' = shIdx + 1 /\ UNCHANGED shPc
  /\ UNCHANGED << shChan, shReloaded, shStopped, shSent, crashed, qwg, qenq,
                  qdone, qlost, atSignal >>
  /\ UNCHANGED notSignalVars

\* a query handler adds to a queue: Get enqueues a task for an expired
\* entry, Record a log entry, the cache's Set a write for the backend
SigEnqueue(q) ==
  /\ ~crashed
  /\ listening
  /\ qenq[q] < MaxEnqueued
  /\ qwg' = [qwg EXCEPT ![q] = @ + 1]
  /\ qenq' = [qenq EXCEPT ![q] = @ + 1]
  /\ UNCHANGED << shChan, shPc, shIdx, shClosed, shReloaded, shStopped, shSent,
                  listening, storeOpen, crashed, qdone, qlost, atSignal >>
  /\ UNCHANGED notSignalVars

\* the cache's queue.consume runs a task; fwd: the task evicts or replaces
\* an entry, which enqueues a write for the backend
SigRunTask(fwd) ==
  /\ ~crashed
  /\ qwg["task"] > 0
  /\ fwd => qenq["sqlCache"] < MaxEnqueued
  /\ qwg' = [qwg EXCEPT !["task"] = @ - 1,
                         !["sqlCache"] = IF fwd THEN @ + 1 ELSE @]
  /\ qenq' = [qenq EXCEPT !["sqlCache"] = IF fwd THEN @ + 1 ELSE @]
  /\ qdone' = [qdone EXCEPT !["task"] = @ + 1]
  /\ UNCHANGED << shChan, shPc, shIdx, shClosed, shReloaded, shStopped, shSent,
                  listening, storeOpen, crashed, qlost, atSignal >>
  /\ UNCHANGED notSignalVars

\* a readQueue goroutine handles the next entry of its queue.  res "ok": the
\* write is committed; "notx": Beginx failed; "fail": another store error.
\* Logger.readQueue logs an error and goes on; the store operations of
\* sql.Cache return nil for "notx", and for "fail" its readQueue calls the
\* nil logger and the process dies.
SigWrite(q, res) ==
  /\ ~crashed
  /\ q \in {"log", "sqlCache"}
  /\ qwg[q] > 0
  /\ res = "ok" => storeOpen
  /\ IF q = "sqlCache" /\ res = "fail"
       THEN /\ crashed' = TRUE
            /\ UNCHANGED << qwg, qdone, qlost >>
       ELSE /\ qwg' = [qwg EXCEPT ![q] = @ - 1]
            /\ qdone' = [qdone EXCEPT ![q] = @ + 1]
            /\ qlost' = IF res = "ok" THEN qlost
                         ELSE [qlost EXCEPT ![q] = @ \cup {qdone[q] + 1}]
            /\ UNCHANGED crashed
  /\ UNCHANGED << shChan, shPc, shIdx, shClosed, shReloaded, shStopped, shSent,
                  listening, storeOpen, qenq, atSignal >>
  /\ UNCHANGED notSignalVars

InitSignal ==
  /\ CacheInit /\ capacity = 0 /\ ~prefetch
  /\ MuxIdle
  /\ ProxyIdle
  /\ ServerOff
  /\ LogOff
  /\ SqlCacheIdle /\ SqlIdle

NextSignal ==
  \/ \E sig \in Signals : SigArrive(sig)
  \/ SigRecv
  \/ SigStop
  \/ SigReload
  \/ \E err \in BOOLEAN : SigClose(err)
  \/ \E q \in Queues : SigEnqueue(q)
  \/ \E fwd \in BOOLEAN : SigRunTask(fwd)
  \/ \E q \in {"log", "sqlCache"}, res \in {"ok", "notx", "fail"} : SigWrite(q, res)

SpecSignal == InitSignal /\ [][NextSignal]_vars

(***************************************************************************)
(* sql.Cache: Set, Evict and Reset enqueue a query, the readQueue           *)
(* goroutine runs the queries against the store, Close waits for them.      *)
(***************************************************************************)
notSqlCacheVars == << cacheVars, muxVars, proxyVars, serverVars, logVars,
                     sqlVars, signalVars >>

SqlKeys == 1..NumKeys

Queries ==
  {[op |-> setOp, key |-> k] : k \in SqlKeys}
    \cup {[op |-> removeOp, key |-> k] : k \in SqlKeys}
    \cup {[op |-> resetOp, key |-> 0]}

\* DELETE FROM cache WHERE key = $1
deleteKey(store, key) == SelectSeq(store, LAMBDA k : k # key)

\* writeCacheValue: the row of key is deleted and a new one inserted, with
\* the next id
writeCacheValue(store, key) == Append(deleteKey(store, key), key)

\* writeCacheValue, removeCacheValue and truncateCache on the keys stored,
\* in id order
runQuery(store, q) ==
  IF q.op = setOp THEN writeCacheValue(store, q.key)
  ELSE IF q.op = removeOp THEN deleteKey(store, q.key)
  ELSE << >>

\* the queries qs run one after the other on store
RECURSIVE runQueries(_, _)
runQueries(store, qs) ==
  IF qs = << >> THEN store ELSE runQueries(runQuery(store, Head(qs)), Tail(qs))

\* enqueue up to the channel send: c.wg.Add(1)
SqEnqueueAdd(q) ==
  /\ sqpc # "crashed"
  /\ sqArg = NoQuery
  /\ sqSent < MaxQueries
  /\ sqSent' = sqSent + 1
  /\ sqWg' = sqWg + 1
  /\ sqArg' = q
  /\ sqOps' = Append(sqOps, q)
  /\ UNCHANGED << sqQueue, sqpc, sqCur, sqStore, sqClosing >>
  /\ UNCHANGED << sqReadVars, notSqlCacheVars >>

\* c.queue <- q: waits while the channel is full
SqEnqueueSend ==
  /\ sqpc # "crashed"
  /\ sqArg # NoQuery
  /\ Len(sqQueue) < SqlQueueCap
  /\ sqQueue' = Append(sqQueue, sqArg)
  /\ sqArg' = NoQuery
  /\ UNCHANGED << sqWg, sqpc, sqCur, sqStore, sqSent, sqClosing >>
  /\ UNCHANGED << sqOps, sqReadVars, notSqlCacheVars >>

\* readQueue receives the next query
SqRecv ==
  /\ sqpc = "recv"
  /\ sqQueue # << >>
  /\ sqCur' = Head(sqQueue)
  /\ sqQueue' = Tail(sqQueue)
  /\ sqpc' = "exec"
  /\ UNCHANGED << sqWg, sqStore, sqArg, sqSent, sqClosing >>
  /\ UNCHANGED << sqOps, sqReadVars, notSqlCacheVars >>

\* the loop body: the store operation succeeds and c.wg.Done() follows, or
\* it fails and readQueue calls c.logger.Printf; NewCache leaves c.logger
\* nil, so the call dereferences a nil *log.Logger and the panic ends the
\* process
SqExec(ok) ==
  /\ sqpc = "exec"
  /\ IF ok
       THEN /\ sqStore' = runQuery(sqStore, sqCur)
            /\ sqWg' = sqWg - 1
            /\ sqCur' = NoQuery
            /\ sqpc' = "recv"
       ELSE /\ sqpc' = "crashed"
            /\ UNCHANGED << sqStore, sqWg, sqCur >>
  /\ UNCHANGED << sqQueue, sqArg, sqSent, sqClosing >>
  /\ UNCHANGED << sqOps, sqReadVars, notSqlCacheVars >>

\* Close is called
SqClose ==
  /\ sqpc # "crashed"
  /\ sqClosing = "idle"
  /\ sqClosing' = "wait"
  /\ UNCHANGED << sqQueue, sqWg, sqpc, sqCur, sqStore, sqArg, sqSent >>
  /\ UNCHANGED << sqOps, sqReadVars, notSqlCacheVars >>

\* c.wg.Wait() returns, and Close with it
SqCloseReturn ==
  /\ sqpc # "crashed"
  /\ sqClosing = "wait"
  /\ sqWg = 0
  /\ sqClosing' = "returned"
  /\ UNCHANGED << sqQueue, sqWg, sqpc, sqCur, sqStore, sqArg, sqSent >>
  /\ UNCHANGED << sqOps, sqReadVars, notSqlCacheVars >>

\* the store operation cannot begin its transaction: writeCacheValue,
\* removeCacheValue and truncateCache return nil for an error of Beginx, so
\* readQueue goes on as if the query had been run
SqExecNoTx ==
  /\ sqpc = "exec"
  /\ sqWg' = sqWg - 1
  /\ sqCur' = NoQuery
  /\ sqpc' = "recv"
  /\ UNCHANGED << sqQueue, sqStore, sqArg, sqSent, sqClosing >>
  /\ UNCHANGED << sqOps, sqReadVars, notSqlCacheVars >>

\* Read is called
SqRead ==
  /\ sqpc # "crashed"
  /\ sqRpc = "idle"
  /\ sqRpc' = "wait"
  /\ sqReadSeen' = Len(sqOps)
  /\ UNCHANGED << sqQueue, sqWg, sqpc, sqCur, sqStore, sqArg, sqSent,
                  sqClosing, sqOps, sqReadRes >>
  /\ UNCHANGED notSqlCacheVars

\* c.wg.Wait() returns in Read
SqReadWait ==
  /\ sqpc # "crashed"
  /\ sqRpc = "wait"
  /\ sqWg = 0
  /\ sqRpc' = "read"
  /\ UNCHANGED << sqQueue, sqWg, sqpc, sqCur, sqStore, sqArg, sqSent,
                  sqClosing, sqOps, sqReadRes, sqReadSeen >>
  /\ UNCHANGED notSqlCacheVars

\* c.client.readCache(): the rows in id order, or an error, which Read logs
\* before it returns nil
SqReadReturn(ok) ==
  /\ sqpc # "crashed"
  /\ sqRpc = "read"
  /\ sqReadRes' = IF ok THEN sqStore ELSE << >>
  /\ sqRpc' = "returned"
  /\ UNCHANGED << sqQueue, sqWg, sqpc, sqCur, sqStore, sqArg, sqSent,
                  sqClosing, sqOps, sqReadSeen >>
  /\ UNCHANGED notSqlCacheVars

InitSqlCache ==
  /\ CacheInit /\ capacity = 0 /\ ~prefetch
  /\ MuxIdle
  /\ ProxyIdle
  /\ ServerOff
  /\ LogOff
  /\ SqlCacheIdle /\ SqlIdle

NextSqlCache ==
  \/ \E q \in Queries : SqEnqueueAdd(q)
  \/ SqEnqueueSend
  \/ SqRecv
  \/ \E ok \in BOOLEAN : SqExec(ok)
  \/ SqExecNoTx
  \/ SqRead
  \/ SqReadWait
  \/ \E ok \in BOOLEAN : SqReadReturn(ok)
  \/ SqClose
  \/ SqCloseReturn

SpecSqlCache == InitSqlCache /\ [][NextSqlCache]_vars

(***************************************************************************)
(* Properties of the cache.                                                *)
(***************************************************************************)
\* the records of message object m that count for its TTL: all but OPT
\* pseudo-records of the additional section
TTLRecords(m) ==
  { i \in 1..Len(heap[m].rr) : ~(heap[m].rr[i].sec = "extra" /\ heap[m].rr[i].opt) }

HasZeroTTL(m) == \E i \in TTLRecords(m) : heap[m].rr[i].ttl = 0

\* the effective TTL of m is more than d seconds
TTLExceeds(m, d) == \A i \in TTLRecords(m) : heap[m].rr[i].ttl > d

CacheableRcode(m) == heap[m].rcode \in {RcodeSuccess, RcodeNameError}

C2_EvictOldest ==
  [][\A k \in Keys, m \in SetMsgs :
       (/\ Set(k, m)
        /\ ~HasZeroTTL(m) /\ CacheableRcode(m)
        /\ capacity > 0
        /\ Cardinality(DOMAIN values) = capacity
        /\ k \notin DOMAIN values)
       => (/\ DOMAIN values' = ((DOMAIN values) \ {keys[1]}) \cup {k}
           /\ keys' = Append(Tail(keys), k)
           /\ \A j \in (DOMAIN values) \ {keys[1]} : values'[j] = values[j]
           /\ values'[k].msg = m
           /\ Cardinality(DOMAIN values') = capacity
           /\ Len(keys') = capacity)]_vars

\* a Set of a new key into a full cache of capacity 2 has evicted a key
C2_Witness ==
  /\ last.op = "Set"
  /\ last.ok
  /\ capacity = 2
  /\ last.evictedOther
  /\ Cardinality(DOMAIN values) = capacity

\* C3: Set(k, m) changes neither the map, nor the insertion-order list, nor
\* the backend when capacity is 0, or the minimum TTL of m is 0, or the rcode
\* of m is neither NOERROR nor NXDOMAIN; no entry with TTL 0 or such an rcode
\* is ever stored; and with capacity 0 the cache stays empty and every Get
\* misses.
C3_SetNoOp ==
  /\ [][\A k \in Keys, m \in SetMsgs :
          (Set(k, m) /\ (capacity = 0 \/ HasZeroTTL(m) \/ ~CacheableRcode(m)))
          => UNCHANGED << values, keys, backend >>]_vars
  /\ [](\A k \in DOMAIN values :
          ~HasZeroTTL(values[k].msg) /\ CacheableRcode(values[k].msg))
  /\ [](capacity = 0 => (DOMAIN values = {} /\ keys = << >> /\ backend = << >>))
  /\ []((capacity = 0 /\ last.op = "Get") => ~last.ok)

\* a Set that was refused for a key that has an entry
C3_Witness ==
  /\ last.op = "Set"
  /\ ~last.ok
  /\ capacity > 0
  /\ Len(keys) = capacity

C25_SetExistingInPlace ==
  [][\A k \in Keys, m \in SetMsgs :
       (/\ Set(k, m)
        /\ ~HasZeroTTL(m) /\ CacheableRcode(m)
        /\ capacity > 0
        /\ k \in DOMAIN values)
       => (/\ DOMAIN values' = DOMAIN values
           /\ values'[k].msg = m
           /\ values'[k].createdAt = now
           /\ keys' = Append(removeKey(keys, k), k)
           /\ \A j \in (DOMAIN values) \ {k} : values'[j] = values[j])]_vars

C27_LoadLastEntries ==
  [][(Load /\ capacity > 0)
       => LET N == Len(backend)
              m == IF N < capacity THEN N ELSE capacity
              kept == SubSeq(backend, N - m + 1, N)
          IN /\ keys' = [i \in 1..m |-> kept[i].key]
             /\ DOMAIN values' = {kept[i].key : i \in 1..m}
             /\ \A i \in 1..m : values'[kept[i].key] = kept[i]
             /\ backend' = kept
             /\ {backend'[i].key : i \in DOMAIN backend'} = DOMAIN values']_vars

\* C5: with prefetch, a Get never waits: no Get is stuck in its send to the
\* task queue (the queue is full) while the queue's consumer is stuck waiting
\* for the write lock that this Get's read lock keeps it from taking.
C5_GetNeverBlocks ==
  \A p \in Callers :
    (prefetch /\ pc[p] = "send" /\ Len(queue) = QueueCap)
    => ~(cpc = "lock" /\ p \in readers)

C33_ListMatchesMap ==
  /\ {keys[i] : i \in DOMAIN keys} = DOMAIN values
  /\ \A i, j \in DOMAIN keys : keys[i] = keys[j] => i = j
  /\ Cardinality(DOMAIN values) <= capacity

\* a full cache of two entries whose last write evicted another key and
\* moved its own key to the end
C33_Witness ==
  /\ capacity = 2
  /\ Len(keys) = 2
  /\ last.evictedOther
  /\ last.op \in {"Set", "Refresh"}

\* C34: no goroutine is at a step that can suspend while it holds the
\* cache lock: a Get that is about to send its task to the queue has
\* released the read lock.
C34_NoSuspendUnderLock ==
  \A p \in Callers : pc[p] = "send" => p \notin readers

\* the keys of the rows of the backend
BackendKeys == {backend[i].key : i \in DOMAIN backend}

OnceInKeys(ks, k) == Cardinality({i \in DOMAIN ks : ks[i] = k}) = 1

\* the refresh task at the write lock is older than the entry of its key: a
\* Set wrote that entry, which has not expired, after the task was queued
RefreshRacesSet ==
  /\ cpc = "lock"
  /\ ctask.op = "refresh"
  /\ ctask.key \in DOMAIN values
  /\ ~isExpired(values[ctask.key], now)
  /\ watch.by = "Set" /\ watch.key = ctask.key /\ watch.intact

\* a Set(k, m) takes the write lock after a refresh of k wrote its entry
SetAfterRefresh(k) ==
  /\ watch.by = "Refresh" /\ watch.key = k /\ watch.intact
  /\ k \in DOMAIN values

\* C36 as stated: of a refresh of k and a Set(k, m), the one that takes the
\* write lock last leaves its own message as the one entry of k, created
\* now, with k once in the insertion-order list.
C36_LastWriterWins_AsStated ==
  /\ [][\A r \in Replies :
          (RefreshSet(r) /\ RefreshRacesSet)
          => (/\ ctask.key \in DOMAIN values'
              /\ values'[ctask.key] = [key |-> ctask.key, createdAt |-> now,
                                        msg |-> r]
              /\ OnceInKeys(keys', ctask.key))]_vars
  /\ [][\A k \in Keys, m \in SetMsgs :
          (Set(k, m) /\ SetAfterRefresh(k))
          => (/\ k \in DOMAIN values'
              /\ values'[k] = [key |-> k, createdAt |-> now, msg |-> m]
              /\ OnceInKeys(keys', k))]_vars

\* C36: of a refresh of k and a Set(k, m), the one that takes the write lock
\* last decides: with a message that can be cached it leaves that message as
\* the one entry of k, created now, with k once in the list; a refresh whose
\* reply cannot be cached removes the entry the Set wrote; a Set whose
\* message cannot be cached leaves the entry of the refresh as it is.
C36_LastWriterWins ==
  /\ [][\A r \in Replies :
          (RefreshSet(r) /\ RefreshRacesSet)
          => IF ~HasZeroTTL(r) /\ CacheableRcode(r)
               THEN /\ ctask.key \in DOMAIN values'
                    /\ values'[ctask.key] = [key |-> ctask.key,
                                              createdAt |-> now, msg |-> r]
                    /\ OnceInKeys(keys', ctask.key)
               ELSE /\ ctask.key \notin DOMAIN values'
                    /\ \A i \in DOMAIN keys' : keys'[i] # ctask.key]_vars
  /\ [][\A k \in Keys, m \in SetMsgs :
          (Set(k, m) /\ SetAfterRefresh(k))
          => IF ~HasZeroTTL(m) /\ CacheableRcode(m)
               THEN /\ k \in DOMAIN values'
                    /\ values'[k] = [key |-> k, createdAt |-> now, msg |-> m]
                    /\ OnceInKeys(keys', k)
               ELSE /\ values'[k] = values[k]
                    /\ OnceInKeys(keys', k)]_vars

\* a refresh of k is at the write lock while the entry of k is one that a
\* Set wrote after the task was queued, at a later time than 0
C36_Witness ==
  /\ RefreshRacesSet
  /\ watch.createdAt > 0

C6_FirstSuccessWins ==
  /\ [][MuxStart => \A u \in Upstreams : upstream'[u] = "running"]_vars
  /\ []((mpc = "wait" /\ firstOk # NoFirst) => ENABLED MuxReturnReply)
  /\ []((mpc = "returned" /\ firstOk # NoFirst)
          => mres = [ok |-> TRUE, reply |-> firstOk.reply, err |-> 0])
  /\ []((mpc = "returned" /\ ~mres.ok)
          => (firstOk = NoFirst /\ \A u \in Upstreams : upstream[u] = "done"))
  /\ [][(mpc = "returned" /\ mpc' = "returned") => mres' = mres]_vars

\* Exchange has returned the first success while one upstream has failed and
\* another is still running
C6_Witness ==
  /\ mpc = "returned"
  /\ mres.ok
  /\ mres.reply = firstOk.reply
  /\ errs # << >>
  /\ \E u \in Upstreams : upstream[u] = "running"

\* C28: when every upstream has failed, Exchange returns an error and no
\* reply, and the error is the one of the upstream that failed last.
C28_AllFailLastError ==
  [][(MuxReturnError /\ Len(errs) = NumUpstreams)
       => /\ ~mres'.ok
          /\ mres'.reply = NoObj
          /\ mres'.err = errs[Len(errs)]]_vars

\* C29 as stated: when Exchange has returned, every upstream exchange of the
\* call is over.
C29_WaitBeforeReturn ==
  mpc = "returned" => \A u \in Upstreams : upstream[u] = "done"

\* C29: Exchange can return its first reply while other upstreams are still
\* running; the reply it returns is one an upstream of this call sent
\* before the return, the result does not change afterwards, and a reply
\* sent after the return stays in the channel of its own call: no later
\* Exchange receives it.
C29_LateReplyDiscarded ==
  /\ []((mpc = "wait" /\ responses # << >>) => ENABLED MuxReturnReply)
  /\ [][MuxReturnReply
         => /\ firstOk # NoFirst
            /\ mres'.reply = firstOk.reply
            /\ firstOk.client \notin late]_vars
  /\ [][(\E u \in Upstreams : u \in late' /\ u \notin late)
         => (mres' = mres /\ mpc' = "returned")]_vars
  /\ [](mpc = "wait"
          => \A i \in DOMAIN responses : upstream[responses[i].client] = "done")

\* Exchange has returned the first reply while another upstream was still
\* running; that upstream has replied since, and its reply sits in the channel
C29_Witness ==
  /\ mpc = "returned"
  /\ mres.ok
  /\ \E i \in DOMAIN responses :
       /\ responses[i].client \in late
       /\ responses[i].reply # mres.reply

(***************************************************************************)
(* Properties of the proxy.                                                *)
(***************************************************************************)
\* C7: for a query with one question that missed the cache, a failed
\* exchange ends in SERVFAIL to the client with the cache untouched, and a
\* successful exchange ends with the upstream reply sent to the client and
\* stored in the cache under the fingerprint of the question.
C7_MissForwardsAndStores ==
  [][\A h \in Handlers :
       /\ (hpc[h] = "exchange" /\ hreq[h].nq = 1 /\ hpc'[h] # "exchange")
            => \/ hpc'[h] = "forward"
               \/ /\ hpc'[h] = "idle"
                  /\ out' = [to |-> h, kind |-> "servfail", id |-> hreq[h].id,
                             src |-> "none"]
                  /\ UNCHANGED << values, keys, backend >>
       /\ (hpc[h] = "forward" /\ hreq[h].nq = 1 /\ hpc'[h] # "forward")
            => /\ hpc'[h] = "idle"
               /\ out' = [to |-> h, kind |-> "reply", id |-> hreq[h].id,
                          src |-> "upstream"]
               /\ NewKey(hreq[h].name, TypeA, ClassINET) \in DOMAIN values'
               /\ values'[NewKey(hreq[h].name, TypeA, ClassINET)].msg = hmsg[h]]_vars

\* C8: a reply served from the cache carries the id of the request it
\* answers, and no upstream exchange was made for that request.
C8_HitCarriesRequestId ==
  [][\A h \in Handlers :
       (hpc[h] = "write" /\ hpc'[h] = "idle")
         => /\ out'.to = h
            /\ out'.src = "cache"
            /\ out'.id = hreq[h].id
            /\ "upstream" \notin trace[h]]_vars

\* C9: a client message whose question count is not 1 is answered with
\* SERVFAIL, with no hijack lookup, no cache access and no upstream exchange.
C9_NotOneQuestionFails ==
  [][\A h \in Handlers :
       (hpc[h] = "serve" /\ hreq[h].nq # 1 /\ hpc'[h] # "serve")
         => /\ hpc'[h] = "idle"
            /\ out' = [to |-> h, kind |-> "servfail", id |-> hreq[h].id,
                       src |-> "none"]
            /\ UNCHANGED << values, keys, backend, queue >>]_vars

\* C10: no handler goroutine panics, whatever the query and whatever the
\* upstream returns.
C10_NeverPanics ==
  /\ ~panicked
  /\ \A h \in Handlers : hpc[h] # "panic"

\* C38: the reply a handler writes for a cache hit has the rcode and the
\* records of the upstream reply that was stored, and SetReply leaves the
\* rcode and the records of the stored message as they are.
C38_HitKeepsRcode ==
  /\ [][\A h \in Handlers :
          (ServeWriteCached(h) /\ ~writeMsgPanics(hreq[h].addr, heap[hmsg[h]].nq))
          => (/\ heap[hmsg[h]].rcode = MsgTable[hmsg[h]].rcode
              /\ heap[hmsg[h]].rr = MsgTable[hmsg[h]].rr)]_vars
  /\ [][\A h \in Handlers :
          ServeSetReply(h)
          => (/\ heap'[hmsg[h]].rcode = heap[hmsg[h]].rcode
              /\ heap'[hmsg[h]].rr = heap[hmsg[h]].rr)]_vars

\* the record of a reply to the query handler h serves
RecordOf(h, hijacked) ==
  [by |-> h, hijacked |-> hijacked, qtype |-> TypeA, q |-> hreq[h].name,
   addr |-> hreq[h].addr]

\* C39: a reply of the hijack path is recorded with hijacked = true, a reply
\* from the cache or from an upstream exchange with hijacked = false, each with
\* the question, the query type and the remote address of the query it answers
C39_RecordMatchesQuery ==
  [][\A h \in Handlers :
       /\ (ServeLookup(h) /\ out'.src = "hijack" /\ hpc'[h] = "idle")
          => recorded' = RecordOf(h, TRUE)
       /\ (ServeWriteCached(h) /\ ~panicked')
          => recorded' = RecordOf(h, FALSE)
       /\ (ServeForward(h) /\ ~panicked')
          => recorded' = RecordOf(h, FALSE)]_vars

\* strings.ToLower of a name: the letters A to Z become a to z
RECURSIVE ToLower(_)
ToLower(name) ==
  IF name = << >> THEN << >>
  ELSE << IF Head(name) >= 65 /\ Head(name) <= 90 THEN Head(name) + 32
          ELSE Head(name) >> \o ToLower(Tail(name))

SameQuestion(a, b) ==
  /\ ToLower(a.name) = ToLower(b.name)
  /\ a.qtype = b.qtype
  /\ a.qclass = b.qclass

\* C40: the key is a function of the lower-cased name, the type and the class
\* only: two questions that differ only in the letter case of the name get the
\* same key, in one run of the process and across a restart
C40_KeyOfLowerCasedName ==
  \A r1, r2 \in KeyRuns :
    (/\ keyed[r1] # NoKeyed
     /\ keyed[r2] # NoKeyed
     /\ SameQuestion(keyed[r1], keyed[r2]))
    => keyed[r1].key = keyed[r2].key

(***************************************************************************)
(* Properties of the hijack handler and the hosts loader.                  *)
(***************************************************************************)
\* the addresses of family fam among ipAddrs
OfFamily(ipAddrs, fam) == {ipAddrs[i].ip : i \in {j \in DOMAIN ipAddrs : ipAddrs[j].fam = fam}}

\* C11: a query of type A or AAAA whose bare name is in the installed table
\* is answered NOERROR by the handler according to the hijack mode: zero
\* gives one record with the zero address of the queried family, empty gives
\* no record, hosts gives one record per address of the queried family in
\* the entry and no other; every record has the queried type.  Any other
\* query is not hijacked.
C11_HijackByMode ==
  hres # NoLookup =>
    LET t == TableOf(hosts)
        bare == nonFqdn(hres.name)
        fam == IF hres.type = TypeA THEN 4 ELSE 6
        ans == hres.msg.answer
    IN IF hres.type \in {TypeA, TypeAAAA} /\ bare \in DOMAIN t
       THEN /\ hres.msg.hijacked
            /\ hres.msg.rcode = RcodeSuccess
            /\ \A i \in DOMAIN ans : ans[i].rrtype = hres.type /\ ans[i].name = hres.name
            /\ hijackMode = HijackZero =>
                  (Len(ans) = 1 /\ ans[1].ip = (IF fam = 4 THEN "0.0.0.0" ELSE "::"))
            /\ hijackMode = HijackEmpty => ans = << >>
            /\ hijackMode = HijackHosts =>
                  /\ {ans[i].ip : i \in DOMAIN ans} = OfFamily(t[bare], fam)
                  /\ Len(ans) = Cardinality(OfFamily(t[bare], fam))
       ELSE ~hres.msg.hijacked

\* in mode hosts an AAAA query for the FQDN of a name with an address of
\* each family was answered with the IPv6 address alone
C11_Witness ==
  /\ hijackMode = HijackHosts
  /\ hres.type = TypeAAAA
  /\ hres.name = << 120, 46 >>
  /\ hres.msg.hijacked
  /\ Len(hres.msg.answer) = 1
  /\ Len(TableOf(hosts)[HostX]) = 2

\* the left fold over the first n sources of cfg, reads[i] being what source
\* i gave: a failed source is skipped, a hijack=true source adds or
\* overrides its entries, a hijack=false source deletes the names it lists
RECURSIVE FoldSources(_, _, _)
FoldSources(cfg, reads, n) ==
  IF n = 0 THEN EmptyHosts
  ELSE LET prev == FoldSources(cfg, reads, n - 1)
           src == reads[n].hosts
       IN IF reads[n].err THEN prev
          ELSE IF cfg[n].hijack
               THEN [x \in (DOMAIN prev) \cup (DOMAIN src) |->
                       IF x \in DOMAIN src THEN src[x] ELSE prev[x]]
               ELSE [x \in (DOMAIN prev) \ (DOMAIN src) |-> prev[x]]

\* C12: the table a load installs is the left fold over all configured
\* sources in declaration order of what the load read from them, and the
\* load has logged exactly the sources that failed, which the fold skips.
C12_InstalledIsFold ==
  [][\A l \in Loaders :
       (lpc[l] = "swap" /\ lpc'[l] = "idle")
         => /\ Len(lreads[l]) = Len(sources)
            /\ TableOf(hosts)' = FoldSources(sources, lreads[l], Len(sources))
            /\ lfailed[l] = {i \in 1..Len(sources) : lreads[l][i].err}]_vars

\* a load whose first source failed has installed the entries of its
\* second source
C12_Witness ==
  /\ Len(installed) = NumSources
  /\ installed[1].err
  /\ ~installed[NumSources].err
  /\ sources[NumSources].hijack
  /\ hosts # NilHosts
  /\ TableOf(hosts) = installed[NumSources].hosts
  /\ TableOf(hosts) # EmptyHosts

\* C13: a lookup of a name that a hijack=false source listed, when the load
\* that installed the current table read it, is not hijacked.
C13_ListedNeverHijacked ==
  [][hres' # hres =>
       ((\E i \in DOMAIN installed :
           /\ ~sources[i].hijack
           /\ ~installed[i].err
           /\ nonFqdn(hres'.name) \in DOMAIN installed[i].hosts)
        => ~hres'.msg.hijacked)]_vars

\* C14: the installed table is at every moment a complete table, the fold
\* of everything one load read; it changes only in the swap of a load; a
\* lookup answers from it; s.mu is held by a load only for the swap, and a
\* lookup can run whenever no load holds it.
C14_AtomicSwap ==
  /\ [](TableOf(hosts) = FoldSources(sources, installed, Len(installed)))
  /\ [][TableOf(hosts)' # TableOf(hosts)
          => \E l \in Loaders : lpc[l] = "swap" /\ lpc'[l] = "idle"]_vars
  /\ [][hres' # hres
          => hres'.msg = replyMsg(hijack(FoldSources(sources, installed, Len(installed)),
                                         hijackMode,
                                         [type |-> hres'.type, name |-> hres'.name]))]_vars
  /\ [](\A l \in Loaders : smu = l => lpc[l] = "swap")
  /\ [](smu = 0 => \A r \in Requests : ENABLED Hijack(r))

\* a lookup was answered from the installed table while a load had merged
\* only its first source into a table that differs from the installed one
C14_Witness ==
  /\ installed # << >>
  /\ hres.msg.hijacked
  /\ nonFqdn(hres.name) \in DOMAIN TableOf(hosts)
  /\ \E l \in Loaders :
       /\ lpc[l] = "read"
       /\ li[l] = NumSources
       /\ nonFqdn(hres.name) \notin DOMAIN TableOf(lhs[l])

(***************************************************************************)
(* Properties of the logger and of the persistent cache's writer.           *)
(***************************************************************************)
\* the entries Record has accepted that readQueue has not finished with:
\* those in the channel and the one whose writeLog is under way
LogPending == SeqIds(lqueue) \cup (IF wpc = "write" THEN {wcur.id} ELSE {})

\* C15: a log record is sent to the queue, and so can show in table log,
\* only after the reply of its query was written to the client.
C15_ReplyBeforeRecord ==
  /\ \A i \in DOMAIN accepted : accepted[i] \in replied
  /\ \A i \in DOMAIN logRows : logRows[i].id # 0 => logRows[i].id \in replied

\* C16: as long as no writeLog has failed, the entries committed, followed
\* by the one being written and those in the channel, are the entries
\* accepted, in the order of their sends; and the wait group counts just
\* the accepted entries readQueue has not finished, so that none is lost.
C16_CommittedIsAccepted ==
  /\ failed = {}
       => committed
            \o (IF wpc = "write" THEN << wcur.id >> ELSE << >>)
            \o [i \in DOMAIN lqueue |-> lqueue[i].id]
          = accepted
  /\ lwg = Len(lqueue) + (IF wpc \in {"write", "prune"} THEN 1 ELSE 0)
             + Cardinality({h \in Recorders : rpc[h] = "send"})
  /\ (failed = {} /\ lwg = 0) => committed = accepted

\* every entry was committed, two concurrent callers having sent theirs in
\* another order than they called writeMsg
C16_Witness ==
  /\ failed = {}
  /\ Len(committed) = MaxRecords
  /\ committed = accepted
  /\ \E i \in DOMAIN accepted : accepted[i] # i

\* C17: once Close has returned, every entry accepted before Close was
\* called has been handed to the store, and readQueue has terminated.
C17_CloseDrainsAndJoins ==
  closing = "returned"
    => /\ closeSeen \subseteq ({committed[i] : i \in DOMAIN committed} \cup failed)
       /\ wpc \in {"off", "terminated"}

\* C18: a Record call that has reached its channel send can always
\* complete it, whatever the queue holds and wherever readQueue is.
C18_RecordNeverBlocks ==
  \A h \in Recorders : rpc[h] = "send" => ENABLED RecordSend(h)

\* Record passes an entry on if and only if the mode is all, or the mode is
\* hijacked and the entry is flagged; table log holds no row of another
\* entry
C19_Filter ==
  /\ [][\A h \in Recorders :
          (rpc[h] = "idle" /\ rpc'[h] # "idle")
            => ((rpc'[h] = "send")
                  <=> (logMode = LogAll
                         \/ (logMode = LogHijacked /\ rrec'[h].hijacked)))]_vars
  /\ [](\A i \in DOMAIN logRows :
          logRows[i].id # 0
            => /\ logRows[i].id \in {accepted[j] : j \in DOMAIN accepted}
               /\ logMode = LogAll \/ (logMode = LogHijacked /\ logRows[i].hijacked))

\* in mode discard Record sends nothing, readQueue does not run, and table
\* log is never written or pruned
C19_Discard ==
  /\ [](logMode = LogDiscard
          => wpc = "off" /\ lqueue = << >> /\ lwg = 0 /\ accepted = << >>)
  /\ [][logMode = LogDiscard => logRows' = logRows]_vars

ExpiredRows == {i \in DOMAIN logRows : logRows[i].time < lnow - logTTL}

\* C21: with a ttl and a logger that logs, whenever table log holds a row
\* older than now - ttl, the row is eventually deleted.
C21_ExpiredRowsPruned ==
  (logMode # LogDiscard /\ logTTL > 0 /\ ExpiredRows # {}) ~> (ExpiredRows = {})

(***************************************************************************)
(* Properties of the SQL client.                                            *)
(***************************************************************************)
PruneTimes == 0..(MaxLogTime + 1)

EligibleRows(db, t) == {r \in db.log : r.time < t}

\* every dimension table holds exactly the values the rows of log and of
\* log_rr_answer reference
DimsExact(db) ==
  /\ db.rr_type = {r.qtype : r \in db.log}
  /\ db.rr_question = {r.question : r \in db.log}
  /\ db.remote_addr = {r.addr : r \in db.log}
  /\ db.rr_answer = {l.answer : l \in db.log_rr_answer}

\* C22: a deleteLogBefore(t) that commits leaves exactly the log rows with
\* time >= t, exactly their answer links, and dimension tables that hold
\* exactly the values still referenced.
C22_DeleteExact ==
  [][\A t \in PruneTimes :
       DeleteLogBefore(t, TRUE)
         => /\ sqlDb'.log = sqlDb.log \ EligibleRows(sqlDb, t)
            /\ sqlDb'.log_rr_answer =
                 {l \in sqlDb.log_rr_answer : l.log \in {r.id : r \in sqlDb'.log}}
            /\ DimsExact(sqlDb')]_vars

\* C23: a deleteLogBefore(t) that finds more rows to delete than one SELECT
\* gives still commits with none of them left.
C23_PruneBeyondLimit ==
  [][\A t \in PruneTimes :
       (DeleteLogBefore(t, TRUE) /\ Cardinality(EligibleRows(sqlDb, t)) > PruneLimit)
         => EligibleRows(sqlDb', t) = {}]_vars

\* C24: the committed database, which is all a readLog can get, holds for
\* every log row its dimension rows and exactly the answers it was written
\* with; a writeLog under way holds c.mu, which keeps out readLog and every
\* other writer; a writeLog that fails leaves the database as it was, and one
\* that commits adds its one row, its links and its dimension values.
C24_WriteAtomic ==
  /\ [](\A rec \in readLog(sqlDb, MaxLogId) \cup sqlRead : rec.answers = rec.given)
  /\ [](Cardinality(readLog(sqlDb, MaxLogId)) = Cardinality(sqlDb.log))
  /\ [](DimsExact(sqlDb))
  /\ [](sqlPc # "idle" => sqlMu = "locked")
  /\ [](sqlMu = "locked"
          => /\ \A n \in 1..MaxLogId : ~ENABLED ReadLog(n)
             /\ \A e \in LogEntries : ~ENABLED WriteLogBegin(e)
             /\ \A t \in PruneTimes, ok \in BOOLEAN : ~ENABLED DeleteLogBefore(t, ok))
  /\ [][WriteLogFail => sqlDb' = sqlDb]_vars
  /\ [][WriteLogCommit
          => /\ sqlDb'.log \ sqlDb.log =
                  {[id |-> NextLogId(sqlDb.log), time |-> sqlArg.time,
                    qtype |-> sqlArg.qtype, question |-> sqlArg.question,
                    addr |-> sqlArg.addr, given |-> SeqRange(sqlArg.answers)]}
             /\ sqlDb.log \subseteq sqlDb'.log
             /\ sqlDb'.log_rr_answer \ sqlDb.log_rr_answer =
                  {[log |-> NextLogId(sqlDb.log), answer |-> a] :
                     a \in SeqRange(sqlArg.answers)}]_vars

\* a writeLog of an entry with two answers has inserted its log row in the
\* transaction and not yet the links, while the last readLog returned a
\* committed entry with its two answers
C24_Witness ==
  /\ sqlPc = "links"
  /\ Cardinality(SeqRange(sqlArg.answers)) = 2
  /\ Cardinality(sqlTx.db.log) = Cardinality(sqlDb.log) + 1
  /\ \E rec \in sqlRead : Cardinality(rec.answers) = 2 /\ rec \in readLog(sqlDb, MaxLogId)

\* C20: whenever the persistent cache's readQueue runs a query, whether
\* the store fails or not, it marks the query done and goes back to
\* receiving; so Close can return.
C20_WriterSurvivesStoreError ==
  [][sqpc = "exec" /\ sqpc' # "exec" => sqpc' = "recv" /\ sqWg' = sqWg - 1]_vars

\* C30: what Read returns is the outcome of running, in the order they were
\* enqueued, the queries enqueued before Read was called (and possibly some
\* enqueued while Read was under way): the keys in the order of their last
\* Set.
C30_ReadAfterWrites ==
  sqRpc = "returned"
    => \E k \in sqReadSeen..Len(sqOps) :
         sqReadRes = runQueries(<< >>, SubSeq(sqOps, 1, k))

(***************************************************************************)
(* Properties of the signal handler.                                       *)
(***************************************************************************)
\* the closers closed so far in this pass are the first registered ones, in
\* registration order, whatever their Close returned
ClosedInOrder ==
  /\ Len(shClosed) <= Len(Closers)
  /\ \A i \in DOMAIN shClosed : shClosed[i].name = Closers[i]

\* a pass over the closers ends only after the last one, and a pass over
\* the reloaders only after every reloader was invoked
PassesComplete ==
  /\ [][(shPc = "close" /\ shPc' = "recv") => Len(shClosed') = Len(Closers)]_vars
  /\ [][(shPc = "reload" /\ shPc' = "recv")
          => shReloaded' = [i \in 1..NumReloaders |-> i]]_vars

\* the entries enqueued on q before the shutdown signal was received
BeforeSignal(q) == 1..atSignal[q]

TypeOK ==
  /\ capacity \in 0..MaxCapacity
  /\ Len(queue) <= QueueCap
  /\ now \in 0..MaxTime

====
